---- MODULE Spec2Model ----
(***************************************************************************)
(* Model of the native <-> data-model bridge of DbgModelClientEx.h:        *)
(*   - the weak link (DataModelReference) between a native model object    *)
(*     and the adapters bound to it,                                       *)
(*   - BoundIterable / BoundIterator / BoundIterableIndexableBase,         *)
(*   - the signature analysis and InvokeFunctionFromPack,                  *)
(*   - intrinsic boxing and unboxing through VARIANTs,                     *)
(*   - the exception <-> HRESULT conversion at the COM boundary.           *)
(***************************************************************************)
EXTENDS Integers, Sequences, FiniteSets, TLC

(***************************************************************************)
(* Bounds of the model.                                                    *)
(***************************************************************************)
MaxLen == 3
MaxArgs == 4
MaxElems == 2

IterIds == {1, 2}

VARIABLES
    TypeIsLive,     \* DataModelReferenceInfo::TypeIsLive of the binding
    instanceAlive,  \* the native model object has not been destroyed yet
    seq,            \* the bound native sequence: kind, data, item projector
    co,             \* positions of the coroutines behind generator cursors
    iters,          \* the BoundIterator objects handed out to the host
    trace,          \* per traversal: elements yielded since acquisition/Reset
    last,           \* outcome of the last host-facing call
    inv,            \* signature analysis / InvokeFunctionFromPack component
    bx,             \* intrinsic boxing component
    cv,             \* a condition crossing the boundary and coming back
    px,             \* a boxed raw pointer and the accesses made through it
    sel,            \* a type handed to BoxObject and the boxer selected
    ba,             \* a boxed fixed-size array, its source and its iterator
    ix,             \* an iterable bound over typed elements and the index information it gave
    en,             \* a client-side iterator over a host object or its keys
    dtor,           \* how far the destruction of the native model object has got
    reg             \* the registration records of an extension model under construction

vars == <<TypeIsLive, instanceAlive, seq, co, iters, trace, last, inv, bx, cv,
          px, sel, ba, ix, en, dtor, reg>>

(***************************************************************************)
(* Exceptions and their conversion to HRESULTs.                            *)
(***************************************************************************)
Exc(t, h, m) == [type |-> t, hr |-> h, msg |-> m]
NoExc == Exc("none", "-", FALSE)

\* object_detached() : runtime_error("Attempt to access a detached object")
object_detached == Exc("object_detached", "-", TRUE)
\* not_implemented() : not_implemented("Not implemented")
not_implemented == Exc("not_implemented", "-", TRUE)
\* unexpected_error() : runtime_error("Unexpected error")
unexpected_error == Exc("unexpected_error", "-", TRUE)
\* std::bad_alloc
bad_alloc == Exc("bad_alloc", "-", TRUE)
\* std::invalid_argument(msg)
invalid_argument == Exc("invalid_argument", "-", TRUE)

\* Outcomes of the two MultiByteToWideChar passes of GetWideString.
Transcodes == {"ok", "mismatch", "nomem"}

\* StringUtils::GetWideString: "" for an empty message; otherwise the string
\* is resized (may fail) and the second pass must report the same length.
GetWideString(hasMsg, tc) ==
    IF ~hasMsg THEN [thrown |-> NoExc, text |-> FALSE]
    ELSE IF tc = "nomem" THEN [thrown |-> bad_alloc, text |-> FALSE]
    ELSE IF tc = "mismatch" THEN [thrown |-> unexpected_error, text |-> FALSE]
    ELSE [thrown |-> NoExc, text |-> TRUE]

\* The catch clauses of Exceptions::ReturnResult, in order: the HRESULT and
\* whether the clause transcodes what().
CatchClause(e) ==
    CASE e.type = "invalid_argument"  -> [hr |-> "E_INVALIDARG", str |-> TRUE]
      [] e.type = "bad_alloc"         -> [hr |-> "E_OUTOFMEMORY", str |-> FALSE]
      [] e.type = "range_error"       -> [hr |-> "E_BOUNDS", str |-> TRUE]
      [] e.type = "not_implemented"   -> [hr |-> "E_NOTIMPL", str |-> TRUE]
      [] e.type = "unexpected_error"  -> [hr |-> "E_UNEXPECTED", str |-> TRUE]
      [] e.type = "hr_exception"      -> [hr |-> e.hr, str |-> TRUE]
      [] e.type = "illegal_operation" -> [hr |-> "E_ILLEGAL_METHOD_CALL", str |-> TRUE]
      [] e.type = "not_set"           -> [hr |-> "E_NOT_SET", str |-> TRUE]
      [] e.type \in {"object_detached", "std_exception"}
                                      -> [hr |-> "E_FAIL", str |-> TRUE]
      [] OTHER                        -> [hr |-> "E_FAIL", str |-> FALSE]

\* Exceptions::ReturnResult(exception, ppError): the HRESULT handed to the
\* host, whether an error object was produced, and the exception (if any)
\* that leaves the function because a catch clause itself threw.
ReturnResult(e, wantError, tc) ==
    LET c == CatchClause(e)
        w == IF c.str THEN GetWideString(e.msg, tc)
             ELSE [thrown |-> NoExc, text |-> FALSE]
    IN IF w.thrown # NoExc
       THEN [hr |-> "none", error |-> FALSE, escaped |-> w.thrown]
       ELSE [hr |-> c.hr, error |-> wantError /\ w.text, escaped |-> NoExc]

(***************************************************************************)
(* The weak link between a native model object and its adapters.           *)
(***************************************************************************)

\* ThrowIfDetached(linkRef): TRUE when object_detached is thrown.
ThrowIfDetached(live) == ~live

(***************************************************************************)
(* Native sequences and their cursors.                                     *)
(*   container         - a random-access container returned by reference   *)
(*   heldGenerator     - a single-pass generator boxed directly and held   *)
(*                       by the projector for the life of the iterable     *)
(*   generatedIterable - GeneratedIterable<>: the generator is re-acquired *)
(*                       from the acquire function on every iterator fetch *)
(* A container cursor is an offset 0 .. n.  A generator cursor is either   *)
(* the coroutine handle (0) or the null end cursor (1); the position       *)
(* lives in the coroutine: co[c] = k means k elements were produced, and   *)
(* k = n + 1 that the coroutine is done.                                   *)
(***************************************************************************)
SeqKinds == {"container", "heldGenerator", "generatedIterable"}
Projectors == {"identity", "successor"}
NativeSeqs == {[k \in 1 .. n |-> 10 * k] : n \in 0 .. MaxLen}
UBValues == {0, 10}

\* IsRandomAccessIterator_v<CIterator>
IsRandom(kind) == kind = "container"

\* The item projector bound with the iterable, applied to *m_itCur.
Project(p, e) == IF p = "identity" THEN e ELSE e + 1

\* generator::begin(): resumes the coroutine; end cursor if that finishes
\* it.  Resuming a finished coroutine is undefined.
GenBegin(pos, n, ubEnd) ==
    IF pos <= n
    THEN [pos |-> pos + 1, cur |-> IF pos + 1 > n THEN 1 ELSE 0, ub |-> FALSE]
    ELSE [pos |-> pos, cur |-> IF ubEnd THEN 1 ELSE 0, ub |-> TRUE]

\* operator* of a cursor: the element, or an undefined read at/after end.
Deref(kind, data, cur, pos, ubVal) ==
    IF IsRandom(kind)
    THEN IF cur < Len(data) THEN [val |-> data[cur + 1], ub |-> FALSE]
         ELSE [val |-> ubVal, ub |-> TRUE]
    ELSE IF pos >= 1 /\ pos <= Len(data) THEN [val |-> data[pos], ub |-> FALSE]
         ELSE [val |-> ubVal, ub |-> TRUE]

\* operator++ of a cursor.
Increment(kind, data, cur, pos) ==
    IF IsRandom(kind) THEN [cur |-> cur + 1, pos |-> pos]
    ELSE IF pos <= Len(data)
         THEN [cur |-> IF pos + 1 > Len(data) THEN 1 ELSE 0, pos |-> pos + 1]
         ELSE [cur |-> 1, pos |-> pos]

(***************************************************************************)
(* IndexerTraits<TVal, TIter, IsRandom> (values without explicit indices). *)
(***************************************************************************)
Dimensions == 0 .. 2

\* IndexerTraits::CheckDimensions
CheckDimensions(random, dims) ==
    IF random THEN dims = 0 \/ dims = 1 ELSE dims = 0

\* Indexers counted from one.
FillIndexers_FromOne(random, begin, cur, dims) ==
    IF random /\ dims = 1 THEN << {cur - begin + 1} >>
    ELSE [k \in 1 .. dims |-> {}]

\* IndexerTraits::CreateIndexers followed by FillIndexers: the contents of
\* ppIndexers on return, {} standing for a null entry.
FillIndexers(random, begin, cur, dims) ==
    IF random /\ dims = 1 THEN << {cur - begin} >>
    ELSE [k \in 1 .. dims |-> {}]

(***************************************************************************)
(* BoundIterator                                                           *)
(***************************************************************************)
NoIter == [made |-> FALSE, m_itBegin |-> 0, m_itEnd |-> 0, m_itCur |-> 0,
           m_thrown |-> NoExc, cid |-> 0]
\* What the host has seen of a traversal: the values yielded and whether
\* the end was reported since it was acquired or last Reset, whether Reset
\* was called on a single-pass cursor (which m_itBegin cannot rewind), and
\* the condition its most recent failing step raised.
NoTrace == [vals |-> << >>, ended |-> FALSE, rewound |-> FALSE, failure |-> NoExc]

\* Conditions a step can raise on its own: the projector or the boxing of
\* the projected value throwing.
StepFaults == {NoExc, invalid_argument}

\* A catch block that does not keep the exception.
Raised_NotRecorded(it, pos, e) ==
    [it |-> it, pos |-> pos, thrown |-> e, hr |-> "none",
     value |-> << >>, indexers |-> << >>, deref |-> FALSE, ub |-> FALSE]

\* The result record of a step that leaves through the catch block, which
\* keeps the exception in m_thrown.
Raised(it, pos, e) ==
    [it |-> [it EXCEPT !.m_thrown = e], pos |-> pos, thrown |-> e, hr |-> "none",
     value |-> << >>, indexers |-> << >>, deref |-> FALSE, ub |-> FALSE]

\* if (m_itCur == m_itEnd) in BoundIterator::GetNext
AtEnd(it) == it.m_itCur = it.m_itEnd

\* if (m_thrown) in BoundIterator::GetNext
HasThrown(it) == it.m_thrown # NoExc

\* A step that looks at the recorded failure and at the end of the sequence
\* before it checks the link.
BoundIterator_GetNext_LinkCheckedLast(it, pos, dims, fault, ubVal) ==
    IF HasThrown(it) THEN Raised(it, pos, it.m_thrown)
    ELSE IF AtEnd(it)
    THEN [it |-> it, pos |-> pos, thrown |-> NoExc, hr |-> "E_BOUNDS",
          value |-> << >>, indexers |-> << >>,
          deref |-> FALSE, ub |-> FALSE]
    ELSE IF ThrowIfDetached(TypeIsLive) THEN Raised(it, pos, object_detached)
    ELSE LET d == Deref(seq.kind, seq.data, it.m_itCur, pos, ubVal)
             n == Increment(seq.kind, seq.data, it.m_itCur, pos)
         IN IF fault # NoExc
            THEN [Raised(it, pos, fault) EXCEPT !.deref = TRUE, !.ub = d.ub]
            ELSE [it |-> [it EXCEPT !.m_itCur = n.cur], pos |-> n.pos,
                  thrown |-> NoExc, hr |-> "S_OK",
                  value |-> << Project(seq.proj, d.val) >>,
                  indexers |-> FillIndexers(IsRandom(seq.kind), it.m_itBegin,
                                            it.m_itCur, dims),
                  deref |-> TRUE,
                  ub |-> d.ub \/ (~IsRandom(seq.kind) /\ pos > Len(seq.data))]

\* BoundIterator::GetNext up to the catch block: the iterator afterwards, the
\* coroutine position, the condition caught (m_thrown is set to it) or the
\* HRESULT returned directly, and the outputs.
BoundIterator_GetNext(it, pos, dims, fault, ubVal) ==
    IF ThrowIfDetached(TypeIsLive) THEN Raised(it, pos, object_detached)
    ELSE IF HasThrown(it) THEN Raised(it, pos, it.m_thrown)
    ELSE IF AtEnd(it)
    THEN [it |-> it, pos |-> pos, thrown |-> NoExc, hr |-> "E_BOUNDS",
          value |-> << >>, indexers |-> << >>,
          deref |-> FALSE, ub |-> FALSE]
    ELSE LET d == Deref(seq.kind, seq.data, it.m_itCur, pos, ubVal)
             n == Increment(seq.kind, seq.data, it.m_itCur, pos)
         IN IF fault # NoExc
            THEN [Raised(it, pos, fault) EXCEPT !.deref = TRUE, !.ub = d.ub]
            ELSE [it |-> [it EXCEPT !.m_itCur = n.cur], pos |-> n.pos,
                  thrown |-> NoExc, hr |-> "S_OK",
                  value |-> << Project(seq.proj, d.val) >>,
                  indexers |-> FillIndexers(IsRandom(seq.kind), it.m_itBegin,
                                            it.m_itCur, dims),
                  deref |-> TRUE,
                  ub |-> d.ub \/ (~IsRandom(seq.kind) /\ pos > Len(seq.data))]

\* BoundIterator::Reset
BoundIterator_Reset(it) == [it EXCEPT !.m_itCur = it.m_itBegin]

\* One generator shared by every iterator, whatever was bound.
GetGenerator_Shared(kind, i) == 0

\* GetGenerator(obj): the coroutine behind the generator handed to iterator
\* i.  A held generator is the one instance bound; a GeneratedIterable calls
\* its acquire function for a new one.
GetGenerator(kind, i) == IF kind = "heldGenerator" THEN 0 ELSE i

\* BoundIterableBase::GetIterator up to the catch block.  The generator
\* projector of a bound class re-checks the link before it touches the
\* native instance; begin()/end() are taken from the generator it returns.
BoundIterableBase_GetIterator(i, fault, ubEnd) ==
    IF ThrowIfDetached(TypeIsLive)
    THEN [thrown |-> object_detached, it |-> NoIter, pos |-> 0, ub |-> FALSE]
    ELSE IF fault # NoExc
    THEN [thrown |-> fault, it |-> NoIter, pos |-> 0, ub |-> FALSE]
    ELSE IF IsRandom(seq.kind)
    THEN [thrown |-> NoExc, pos |-> 0, ub |-> FALSE,
          it |-> [made |-> TRUE, m_itBegin |-> 0, m_itEnd |-> Len(seq.data),
                  m_itCur |-> 0, m_thrown |-> NoExc, cid |-> 0]]
    ELSE LET c == GetGenerator(seq.kind, i)
             p == IF seq.kind = "heldGenerator" THEN co[0] ELSE 0
             b == GenBegin(p, Len(seq.data), ubEnd)
         IN [thrown |-> NoExc, pos |-> b.pos, ub |-> b.ub,
             it |-> [made |-> TRUE, m_itBegin |-> b.cur, m_itEnd |-> 1,
                     m_itCur |-> b.cur, m_thrown |-> NoExc, cid |-> c]]

(***************************************************************************)
(* Bound lambdas of ExtensionModel / TypedInstanceModel.                   *)
(***************************************************************************)
PropertyBindings == {"AddProperty", "AddReadOnlyProperty"}
EquatableBindings == {"AddEquatableFunction", "BindEquatable"}
ComparableBindings == {"AddComparableFunction", "BindComparable"}

\* Conditions the bound native method can raise on its own.
UserFaults == {NoExc, Exc("std_exception", "-", TRUE)}

\* Whether the lambda a binding installs calls ThrowIfDetached(linkRef)
\* before it uses the implementation class.
LinkChecked(binding) == binding \notin {"BindEquatable", "BindComparable"}

\* A bound lambda: [linkRef, pDerived, method](...) { ThrowIfDetached(linkRef);
\* return (pDerived->*method)(...); } - the condition raised and whether the
\* native instance was used.
BoundLambda(binding, userFault) ==
    IF LinkChecked(binding) /\ ThrowIfDetached(TypeIsLive)
    THEN [thrown |-> object_detached, deref |-> FALSE]
    ELSE [thrown |-> userFault, deref |-> TRUE]

\* The setter AddReadOnlyProperty installs: captures nothing, always throws.
ReadOnlySetter == [thrown |-> not_implemented, deref |-> FALSE]

(***************************************************************************)
(* The record of the last host-facing call.                                *)
(***************************************************************************)
NoLast ==
    [op |-> "none", binding |-> "-", it |-> 0, dims |-> 0, index |-> 0,
     hr |-> "none", raised |-> NoExc, escaped |-> NoExc, error |-> FALSE,
     value |-> << >>, indexers |-> << >>, deref |-> FALSE, ub |-> FALSE,
     wasLive |-> TRUE, advanced |-> FALSE, prevThrown |-> NoExc,
     prevEnded |-> FALSE, prevCount |-> 0, dimensionality |-> 0,
     mismatch |-> FALSE]

\* try { ... } catch(...) { return ReturnResult(current_exception(), ppError); }
\* around a body that raised r.thrown (or returned S_OK).
Boundary(op, binding, r, wantError, tc) ==
    LET rr == IF r.thrown # NoExc THEN ReturnResult(r.thrown, wantError, tc)
              ELSE [hr |-> "S_OK", error |-> FALSE, escaped |-> NoExc]
    IN [NoLast EXCEPT !.op = op, !.binding = binding, !.hr = rr.hr,
                      !.raised = r.thrown, !.escaped = rr.escaped,
                      !.error = rr.error, !.deref = r.deref,
                      !.ub = r.deref /\ ~instanceAlive,
                      !.wasLive = TypeIsLive]

\* The transcoding outcome matters only when something was raised.
TranscodesFor(thrown) == IF thrown = NoExc THEN {"ok"} ELSE Transcodes

\* The transcoding outcomes drawn for the calls on an iterable and its
\* iterators: the message converts or the conversion runs out of memory.
IterTranscodesFor(thrown) == TranscodesFor(thrown) \ {"mismatch"}

IterFrame == <<seq, co, iters, trace>>
OtherFrame == <<inv, bx, cv, px, sel, ba, ix, en, dtor, reg>>

\* BoxedProperty::GetValue over the getter of AddProperty/AddReadOnlyProperty
GetValue ==
    /\ \E b \in PropertyBindings, f \in UserFaults :
         LET r == BoundLambda(b, f)
         IN \E tc \in TranscodesFor(r.thrown) :
              last' = Boundary("GetValue", b, r, TRUE, tc)
    /\ UNCHANGED <<TypeIsLive, instanceAlive, IterFrame, OtherFrame>>

\* BoxedProperty::SetValue: the value is unboxed to the setter's argument
\* type first, then the setter runs.
SetValue ==
    /\ \E b \in PropertyBindings, f \in UserFaults, valueOk \in BOOLEAN :
         LET r == IF ~valueOk THEN [thrown |-> invalid_argument, deref |-> FALSE]
                  ELSE IF b = "AddReadOnlyProperty" THEN ReadOnlySetter
                  ELSE BoundLambda(b, f)
         IN \E tc \in TranscodesFor(r.thrown) :
              last' = Boundary("SetValue", b, r, FALSE, tc)
    /\ UNCHANGED <<TypeIsLive, instanceAlive, IterFrame, OtherFrame>>

\* BoxedMethod::Call over the callDest of AddMethod/BindMethod: the argument
\* count is validated and the arguments unboxed before callDest runs.
Call ==
    /\ \E f \in UserFaults, argsOk \in BOOLEAN :
         LET r == IF ~argsOk THEN [thrown |-> invalid_argument, deref |-> FALSE]
                  ELSE BoundLambda("AddMethod", f)
         IN \E tc \in TranscodesFor(r.thrown) :
              last' = Boundary("Call", "AddMethod", r, TRUE, tc)
    /\ UNCHANGED <<TypeIsLive, instanceAlive, IterFrame, OtherFrame>>

\* BoundStringDisplayable::ToDisplayString
ToDisplayString ==
    /\ \E f \in UserFaults :
         LET r == BoundLambda("BindStringConversion", f)
         IN \E tc \in TranscodesFor(r.thrown) :
              last' = Boundary("ToDisplayString", "BindStringConversion", r, FALSE, tc)
    /\ UNCHANGED <<TypeIsLive, instanceAlive, IterFrame, OtherFrame>>

\* BoundEquatable::AreObjectsEqual
AreObjectsEqual ==
    /\ \E b \in EquatableBindings, f \in UserFaults :
         LET r == BoundLambda(b, f)
         IN \E tc \in TranscodesFor(r.thrown) :
              last' = Boundary("AreObjectsEqual", b, r, FALSE, tc)
    /\ UNCHANGED <<TypeIsLive, instanceAlive, IterFrame, OtherFrame>>

\* BoundComparable::CompareObjects
CompareObjects ==
    /\ \E b \in ComparableBindings, f \in UserFaults :
         LET r == BoundLambda(b, f)
         IN \E tc \in TranscodesFor(r.thrown) :
              last' = Boundary("CompareObjects", b, r, FALSE, tc)
    /\ UNCHANGED <<TypeIsLive, instanceAlive, IterFrame, OtherFrame>>

(***************************************************************************)
(* Host calls on the iterable, its iterators and its indexer.              *)
(***************************************************************************)

\* BoundIterableBase::GetIterator: slot i receives the new BoundIterator.
GetIterator(i) ==
    /\ ~iters[i].made
    /\ \A j \in IterIds : j < i => iters[j].made
    /\ \E f \in {NoExc, bad_alloc}, ubEnd \in BOOLEAN :
         LET r == BoundIterableBase_GetIterator(i, f, ubEnd)
             ok == r.thrown = NoExc
             c == r.it.cid
         IN /\ r.ub \/ ubEnd
            /\ iters' = IF ok THEN [iters EXCEPT ![i] = r.it] ELSE iters
            /\ co' = IF ok THEN [co EXCEPT ![c] = r.pos] ELSE co
            /\ trace' = IF ok THEN [trace EXCEPT ![i] = NoTrace] ELSE trace
            /\ \E tc \in IterTranscodesFor(r.thrown) :
                 last' = [Boundary("GetIterator", "BoundIterable",
                                   [thrown |-> r.thrown, deref |-> ok], FALSE, tc)
                            EXCEPT !.it = i,
                                   !.ub = (ok /\ ~instanceAlive) \/ r.ub]
    /\ UNCHANGED <<TypeIsLive, instanceAlive, seq, OtherFrame>>

\* The inputs a step can observe: the requested dimensions and a fault of
\* the projector or of boxing matter only when the step reaches them.
ReachesProjector(it) ==
    TypeIsLive /\ ~HasThrown(it) /\ ~AtEnd(it)
StepDimensions(it) == IF ReachesProjector(it) THEN Dimensions ELSE {0}
StepFaultsFor(it) == IF ReachesProjector(it) THEN StepFaults ELSE {NoExc}

\* BoundIterator::GetNext
GetNext(i) ==
    /\ iters[i].made
    /\ \E dims \in StepDimensions(iters[i]),
          f \in StepFaultsFor(iters[i]),
          ubVal \in UBValues :
         LET it == iters[i]
             r == BoundIterator_GetNext(it, co[it.cid], dims, f, ubVal)
             yielded == r.thrown = NoExc /\ r.hr = "S_OK"
             atEnd == r.thrown = NoExc /\ r.hr = "E_BOUNDS"
         IN /\ r.ub \/ ubVal = 0
            /\ iters' = [iters EXCEPT ![i] = r.it]
            /\ co' = [co EXCEPT ![it.cid] = r.pos]
            /\ trace' = [trace EXCEPT ![i] =
                   [vals |-> IF yielded THEN Append(@.vals, r.value[1]) ELSE @.vals,
                    ended |-> @.ended \/ atEnd,
                    rewound |-> @.rewound,
                    failure |-> IF r.thrown # NoExc THEN r.thrown ELSE @.failure]]
            /\ \E tc \in IterTranscodesFor(r.thrown) :
                 LET rr == IF r.thrown # NoExc THEN ReturnResult(r.thrown, FALSE, tc)
                           ELSE [hr |-> r.hr, error |-> FALSE, escaped |-> NoExc]
                 IN last' = [NoLast EXCEPT !.op = "GetNext", !.binding = "BoundIterator",
                                !.it = i, !.hr = rr.hr,
                                !.raised = r.thrown, !.escaped = rr.escaped,
                                !.value = r.value, !.indexers = r.indexers,
                                !.deref = r.deref, !.ub = r.ub,
                                !.wasLive = TypeIsLive,
                                !.advanced = (r.it.m_itCur # it.m_itCur
                                              \/ r.pos # co[it.cid]),
                                !.prevThrown = trace[i].failure,
                                !.prevEnded = trace[i].ended,
                                !.prevCount = Len(trace[i].vals)]
    /\ UNCHANGED <<TypeIsLive, instanceAlive, seq, OtherFrame>>

\* BoundIterator::Reset
Reset(i) ==
    /\ iters[i].made
    /\ iters' = [iters EXCEPT ![i] = BoundIterator_Reset(@)]
    /\ trace' = [trace EXCEPT ![i] = [NoTrace EXCEPT !.rewound = ~IsRandom(seq.kind),
                                                     !.failure = trace[i].failure]]
    /\ last' = [NoLast EXCEPT !.op = "Reset", !.binding = "BoundIterator", !.it = i,
                   !.hr = "S_OK", !.wasLive = TypeIsLive,
                   !.prevThrown = trace[i].failure,
                   !.prevEnded = trace[i].ended]
    /\ UNCHANGED <<TypeIsLive, instanceAlive, seq, co, OtherFrame>>

\* BoundIterableIndexableBase::GetAt up to the catch block; stIdx is the
\* VT_UI8 value of the single indexer, delta = end() - begin().
BoundIterableIndexableBase_GetAt(indexerCount, stIdx, fault, ubVal) ==
    LET none == [thrown |-> NoExc, hr |-> "none", value |-> << >>,
                 deref |-> FALSE, ub |-> FALSE]
        delta == Len(seq.data)
    IN IF ThrowIfDetached(TypeIsLive) THEN [none EXCEPT !.thrown = object_detached]
       ELSE IF indexerCount # 1 THEN [none EXCEPT !.hr = "E_INVALIDARG"]
       ELSE IF stIdx > delta THEN [none EXCEPT !.hr = "E_BOUNDS", !.deref = TRUE]
       ELSE LET d == Deref(seq.kind, seq.data, stIdx, 0, ubVal)
            IN IF fault # NoExc
               THEN [none EXCEPT !.thrown = fault, !.deref = TRUE, !.ub = d.ub]
               ELSE [none EXCEPT !.hr = "S_OK", !.deref = TRUE, !.ub = d.ub,
                                 !.value = << Project(seq.proj, d.val) >>]

\* BoundIterableIndexableBase::GetAt (offered for random-access sequences)
GetAt ==
    /\ IsRandom(seq.kind)
    /\ \E indexerCount \in 0 .. 2, stIdx \in 0 .. MaxLen + 1, f \in StepFaults,
          ubVal \in UBValues :
         LET r == BoundIterableIndexableBase_GetAt(indexerCount, stIdx, f, ubVal)
         IN /\ r.ub \/ ubVal = 0
            /\ (r.thrown = f) \/ f = NoExc
            /\ \E tc \in IterTranscodesFor(r.thrown) :
                 LET rr == IF r.thrown # NoExc THEN ReturnResult(r.thrown, TRUE, tc)
                           ELSE [hr |-> r.hr, error |-> FALSE, escaped |-> NoExc]
                 IN last' = [NoLast EXCEPT !.op = "GetAt", !.binding = "BoundIterable",
                                !.dims = indexerCount, !.index = stIdx, !.hr = rr.hr,
                                !.raised = r.thrown, !.escaped = rr.escaped,
                                !.error = rr.error, !.value = r.value,
                                !.deref = r.deref, !.ub = r.ub,
                                !.wasLive = TypeIsLive]
    /\ UNCHANGED <<TypeIsLive, instanceAlive, IterFrame, OtherFrame>>

\* BoundIterableIndexableBase::SetAt
SetAt ==
    /\ IsRandom(seq.kind)
    /\ \E indexerCount \in 0 .. 2, stIdx \in 0 .. MaxLen + 1 :
         last' = [NoLast EXCEPT !.op = "SetAt", !.binding = "BoundIterable",
                    !.dims = indexerCount, !.index = stIdx, !.hr = "E_NOTIMPL",
                    !.wasLive = TypeIsLive]
    /\ UNCHANGED <<TypeIsLive, instanceAlive, IterFrame, OtherFrame>>

\* A destructor that leaves the flag of the link alone.
Teardown_LeavesLive ==
    /\ instanceAlive
    /\ instanceAlive' = FALSE
    /\ TypeIsLive' = TypeIsLive
    /\ last' = [NoLast EXCEPT !.op = "Teardown", !.wasLive = TypeIsLive]
    /\ UNCHANGED <<IterFrame, OtherFrame>>

\* BaseDataModel::~BaseDataModel / SpotLinkReference::~SpotLinkReference:
\* the native object goes away and the link is marked dead.
Teardown ==
    /\ instanceAlive
    /\ instanceAlive' = FALSE
    /\ TypeIsLive' = FALSE
    /\ last' = [NoLast EXCEPT !.op = "Teardown", !.wasLive = TypeIsLive]
    /\ UNCHANGED <<IterFrame, OtherFrame>>

(***************************************************************************)
(* Signature analysis and InvokeFunctionFromPack.                          *)
(*                                                                         *)
(* TArgs... is the parameter list of the bound std::function: the context  *)
(* object, the fixed extra values, then the slots filled from the dynamic  *)
(* argument pack.  A slot is a plain type ("Req"), size_t ("SizeT"),       *)
(* Object * ("ObjPtr") or std::optional<T> ("Opt").                        *)
(***************************************************************************)
SlotTypes == {"Req", "SizeT", "ObjPtr", "Opt"}
MaxPack == MaxArgs + 1
ArgKinds == {"value", "mismatch"}

\* IsVariableArgumentPosition<TArgs...>
IsVariableArgumentPosition(args) == args = <<"SizeT", "ObjPtr">>

\* HasVariableArgumentHelper2<TArgs...>
RECURSIVE HasVariableArgumentHelper2(_)
HasVariableArgumentHelper2(args) ==
    IF Len(args) = 2 THEN IsVariableArgumentPosition(args)
    ELSE HasVariableArgumentHelper2(Tail(args))

\* HasVariableArguments<TArgs...>
HasVariableArguments(args) ==
    IF Len(args) < 2 THEN FALSE ELSE HasVariableArgumentHelper2(args)

\* IsOptionalArgument<T>, IsNonOptionalArgument<T>
IsOptionalArgument(t) == t = "Opt"
IsNonOptionalArgument(t) == t # "Opt"

\* An analysis that gives the closing (size_t, Object *) pair no exemption.
RECURSIVE HasNonOptionalArguments_NoVarArgs(_)
HasNonOptionalArguments_NoVarArgs(args) ==
    IF Len(args) = 0 THEN TRUE
    ELSE IF Len(args) = 1 THEN IsNonOptionalArgument(args[1])
    ELSE IF IsNonOptionalArgument(args[1]) THEN TRUE
    ELSE HasNonOptionalArguments_NoVarArgs(Tail(args))

\* HasNonOptionalArguments<TArgs...>
RECURSIVE HasNonOptionalArguments(_)
HasNonOptionalArguments(args) ==
    IF Len(args) = 0 THEN TRUE
    ELSE IF Len(args) = 1 THEN IsNonOptionalArgument(args[1])
    ELSE IF IsVariableArgumentPosition(args) THEN FALSE
    ELSE IF IsNonOptionalArgument(args[1]) THEN TRUE
    ELSE HasNonOptionalArguments(Tail(args))

\* HasOptionalArguments<TArgs...>::value
RECURSIVE HasOptionalArguments(_)
HasOptionalArguments(args) ==
    IF Len(args) = 0 THEN FALSE
    ELSE IF Len(args) = 1 THEN IsOptionalArgument(args[1])
    ELSE IsOptionalArgument(args[1]) \/ HasOptionalArguments(Tail(args))

\* The static_assert instantiated with HasOptionalArguments<TArgs...>
RECURSIVE OptionalOrderAsserted(_)
OptionalOrderAsserted(args) ==
    IF Len(args) <= 1 THEN TRUE
    ELSE /\ ~IsOptionalArgument(args[1]) \/ ~HasNonOptionalArguments(Tail(args))
         /\ OptionalOrderAsserted(Tail(args))

\* FirstOptionalArgumentPositionHelper<i, TArgs...>
RECURSIVE FirstOptionalArgumentPositionHelper(_, _)
FirstOptionalArgumentPositionHelper(i, args) ==
    IF Len(args) = 0 THEN i
    ELSE IF IsOptionalArgument(args[1]) THEN i
    ELSE IF Len(args) = 1 THEN i + 1
    ELSE FirstOptionalArgumentPositionHelper(i + 1, Tail(args))

\* FirstOptionalArgumentPosition<TArgs...>
FirstOptionalArgumentPosition(args) == FirstOptionalArgumentPositionHelper(0, args)

\* A signature analysis that overlooks std::optional<> slots.
PackMatchingSize_NoOptional(args) ==
    IF HasVariableArguments(args) THEN Len(args) - 2 ELSE Len(args)

\* PackMatchingSize<TArgs...>
PackMatchingSize(args) ==
    IF HasOptionalArguments(args) THEN FirstOptionalArgumentPosition(args)
    ELSE IF HasVariableArguments(args) THEN Len(args) - 2
    ELSE Len(args)

\* TupleTypeExtractor<extractCount, TArgs...>
TupleTypeExtractor(extractCount, args) == SubSeq(args, extractCount + 1, Len(args))

\* PackMatchingSize_WithIgnore<ignoreCount, TArgs...>
PackMatchingSize_WithIgnore(ignoreCount, args) ==
    PackMatchingSize(TupleTypeExtractor(ignoreCount, args))

\* A default-constructed tuple element.
DefaultSlot(t) ==
    CASE t = "Opt"    -> [kind |-> "nullopt", at |-> 0]
      [] t = "SizeT"  -> [kind |-> "count", at |-> 0]
      [] t = "ObjPtr" -> [kind |-> "nullptr", at |-> 0]
      [] OTHER        -> [kind |-> "default", at |-> 0]

\* A variadic unpacking that hands over the whole argument array.
VariableUnpacker_WholePack(i, packSize) ==
    [thrown |-> NoExc,
     vals |-> << [kind |-> "count", at |-> packSize],
                 [kind |-> "view", at |-> 0] >>]

\* VariableUnpacker<TTuple, i, 2>::UnpackInto
VariableUnpacker(i, packSize) ==
    IF i >= packSize
    THEN [thrown |-> NoExc, vals |-> << DefaultSlot("SizeT"), DefaultSlot("ObjPtr") >>]
    ELSE [thrown |-> NoExc,
          vals |-> << [kind |-> "count", at |-> packSize - i],
                      [kind |-> "view", at |-> i] >>]

\* Unpacker<TTuple, i, remaining> and RegularUnpacker<TTuple, i, remaining>;
\* i counts from 0, remaining = Len(types) - i.
RECURSIVE Unpacker(_, _, _, _)
Unpacker(types, i, packSize, pack) ==
    IF Len(types) - i = 0 THEN [thrown |-> NoExc, vals |-> << >>]
    ELSE IF Len(types) - i = 2
            /\ IsVariableArgumentPosition(<< types[i + 1], types[i + 2] >>)
    THEN VariableUnpacker(i, packSize)
    ELSE IF i < packSize /\ pack[i + 1] = "mismatch"
    THEN [thrown |-> invalid_argument, vals |-> << >>]
    ELSE LET rest == Unpacker(types, i + 1, packSize, pack)
             slot == IF i < packSize THEN [kind |-> "unboxed", at |-> i]
                     ELSE DefaultSlot(types[i + 1])
         IN [thrown |-> rest.thrown, vals |-> << slot >> \o rest.vals]

\* UnpackValues<tupleExtractionCount, TArgs...>
UnpackValues(tupleExtractionCount, args, packSize, pack) ==
    Unpacker(TupleTypeExtractor(tupleExtractionCount, args), 0, packSize, pack)

\* The return types of a bound function: void or a boxable value.
ReturnTypes == {"void", "value"}

\* The receiver and the fixed extra values a caller of
\* InvokeFunctionFromPack passes along.
ContextObj == [kind |-> "contextObj", at |-> 0]
ExtraValues(n) == [j \in 1 .. n |-> [kind |-> "extraValue", at |-> j - 1]]

\* An invocation that passes the extra values after the unpacked ones.
ApplyImpl_ExtrasLast(contextObj, t, extraValues) ==
    << contextObj >> \o t \o extraValues

\* Apply / ApplyImpl: the argument list std::invoke hands to the function.
ApplyImpl(contextObj, t, extraValues) ==
    << contextObj >> \o extraValues \o t

\* InvokeAndBox<TRet, ...>::Call and InvokeAndBox<void, ...>::Call: the
\* function runs once; fault is what it, BoxObject or CreateNoValue raised.
InvokeAndBox_Call(TRet, contextObj, parameters, extraValues, fault) ==
    [thrown |-> fault, invoked |-> 1,
     received |-> ApplyImpl(contextObj, parameters, extraValues),
     result |-> IF fault # NoExc THEN "none"
                ELSE IF TRet = "void" THEN "NoValue" ELSE "BoxObject(result)"]

\* InvokeFunctionFromPack: the count check, the unpacking, then
\* InvokeAndBox<>::Call.
InvokeFunctionFromPack(TRet, args, packIgnoreCount, packSize, pack, fault) ==
    LET minPackSize == PackMatchingSize_WithIgnore(packIgnoreCount, args)
        maxStaticPack == Len(args) - packIgnoreCount
        isVarArgs == HasVariableArguments(args)
        none == [thrown |-> NoExc, counted |-> FALSE, invoked |-> 0,
                 parameters |-> << >>, received |-> << >>, result |-> "none"]
    IN IF packSize < minPackSize \/ (packSize > maxStaticPack /\ ~isVarArgs)
       THEN [none EXCEPT !.thrown = invalid_argument]
       ELSE LET u == UnpackValues(packIgnoreCount, args, packSize, pack)
            IN IF u.thrown # NoExc
               THEN [none EXCEPT !.thrown = u.thrown, !.counted = TRUE]
               ELSE LET c == InvokeAndBox_Call(TRet, ContextObj, u.vals,
                                               ExtraValues(packIgnoreCount - 1), fault)
                    IN [thrown |-> c.thrown, counted |-> TRUE, invoked |-> c.invoked,
                        parameters |-> u.vals, received |-> c.received,
                        result |-> c.result]

\* The parameter lists that compile: the optional ordering assertion holds
\* for the dynamic slots, and Object * occurs only as the second half of a
\* closing (size_t, Object *) pair (there is no unboxing to Object *).
DynamicSlots == UNION {[1 .. n -> SlotTypes] : n \in 0 .. MaxArgs}
Compiles(slots) ==
    /\ OptionalOrderAsserted(slots)
    /\ \A j \in 1 .. Len(slots) :
          slots[j] = "ObjPtr" => j = Len(slots) /\ j >= 2 /\ slots[j - 1] = "SizeT"
ExtraCounts == {0, 1, 2}
Prefix(extra) == << "Ctx" >> \o [j \in 1 .. extra |-> "Extra"]

InvIdle ==
    [phase |-> "idle", TArgs |-> << >>, packIgnoreCount |-> 0, packSize |-> 0,
     pack |-> << >>, raised |-> NoExc, hr |-> "none", escaped |-> NoExc,
     error |-> FALSE, counted |-> FALSE, invoked |-> 0, parameters |-> << >>,
     TRet |-> "void", received |-> << >>, result |-> "none"]

\* AddMethod / BindMethod: a method with the given parameter list is bound.
BindMethod ==
    /\ inv.phase = "idle"
    /\ \E slots \in DynamicSlots, extra \in ExtraCounts, TRet \in ReturnTypes :
         /\ Compiles(slots)
         /\ inv' = [InvIdle EXCEPT !.phase = "bound",
                                   !.TArgs = Prefix(extra) \o slots,
                                   !.packIgnoreCount = extra + 1,
                                   !.TRet = TRet]
    /\ UNCHANGED <<TypeIsLive, instanceAlive, IterFrame, last, bx, cv, px, sel, ba, ix, en, dtor, reg>>

\* A parameter list that does not compile is declared: the translation unit
\* is rejected, by the static_assert of HasOptionalArguments or because a
\* slot has no unboxing, and nothing is bound.
RejectDeclaration ==
    /\ inv.phase = "idle"
    /\ \E slots \in DynamicSlots, extra \in ExtraCounts :
         /\ ~Compiles(slots)
         /\ inv' = [InvIdle EXCEPT !.phase = IF ~OptionalOrderAsserted(slots)
                                             THEN "static_assert" ELSE "no_unboxer",
                                   !.TArgs = Prefix(extra) \o slots,
                                   !.packIgnoreCount = extra + 1]
    /\ UNCHANGED <<TypeIsLive, instanceAlive, IterFrame, last, bx, cv, px, sel, ba, ix, en, dtor, reg>>

\* The rejected declaration is taken out of the program again.
WithdrawDeclaration ==
    /\ inv.phase \in {"static_assert", "no_unboxer"}
    /\ inv' = InvIdle
    /\ UNCHANGED <<TypeIsLive, instanceAlive, IterFrame, last, bx, cv, px, sel, ba, ix, en, dtor, reg>>

\* BoxedMethod::Call: InvokeMethodFromPack inside try, ReturnResult in the
\* catch block, the result handed out on success.
BoxedMethod_Call ==
    /\ inv.phase = "bound"
    /\ \E packSize \in 0 .. MaxPack, f \in UserFaults :
         \E pack \in [1 .. packSize -> ArgKinds] :
           LET r == InvokeFunctionFromPack(inv.TRet, inv.TArgs, inv.packIgnoreCount,
                                           packSize, pack, f)
           IN /\ r.invoked = 1 \/ f = NoExc
              /\ \E tc \in TranscodesFor(r.thrown) :
                   LET rr == IF r.thrown # NoExc
                             THEN ReturnResult(r.thrown, TRUE, tc)
                             ELSE [hr |-> "S_OK", error |-> FALSE, escaped |-> NoExc]
                   IN inv' = [inv EXCEPT !.phase = "called", !.packSize = packSize,
                                         !.pack = pack, !.raised = r.thrown,
                                         !.hr = rr.hr, !.escaped = rr.escaped,
                                         !.error = rr.error, !.counted = r.counted,
                                         !.invoked = r.invoked,
                                         !.parameters = r.parameters,
                                         !.received = r.received,
                                         !.result = r.result]
    /\ UNCHANGED <<TypeIsLive, instanceAlive, IterFrame, last, bx, cv, px, sel, ba, ix, en, dtor, reg>>

\* The host is done with the outcome of a call; the method stays bound and
\* keeps no state from one call to the next.
ReleaseResult ==
    /\ inv.phase = "called"
    /\ inv' = [InvIdle EXCEPT !.phase = "bound", !.TArgs = inv.TArgs,
                              !.packIgnoreCount = inv.packIgnoreCount,
                              !.TRet = inv.TRet]
    /\ UNCHANGED <<TypeIsLive, instanceAlive, IterFrame, last, bx, cv, px, sel, ba, ix, en, dtor, reg>>

(***************************************************************************)
(* Index assignment on a binding made without a setter.                    *)
(***************************************************************************)

\* A setter projection that returns without raising anything.
SetProjectorFunc_Silent(live) == NoExc

\* setProjectorFunc of AddReadOnlyIndexableGeneratorFunction:
\* ThrowIfDetached(linkRef); throw not_implemented();
SetProjectorFunc(live) ==
    IF ThrowIfDetached(live) THEN object_detached ELSE not_implemented

\* The parameter list of a setter projection: the context object, the
\* value, then one index for every dimension.
SetAtArgs(Dimensionality) ==
    << "Ctx", "Extra" >> \o [j \in 1 .. Dimensionality |-> "Req"]

\* BoundIterableWithIndexable::SetAt with the setter projection of
\* AddReadOnlyIndexableGeneratorFunction, up to its catch block.
BoundIterableWithIndexable_SetAt(Dimensionality, indexerCount, pack) ==
    LET none == [thrown |-> NoExc, hr |-> "none", invoked |-> 0]
    IN IF ThrowIfDetached(TypeIsLive) THEN [none EXCEPT !.thrown = object_detached]
       ELSE IF indexerCount # Dimensionality THEN [none EXCEPT !.hr = "E_INVALIDARG"]
       ELSE LET r == InvokeFunctionFromPack("void", SetAtArgs(Dimensionality), 2,
                                            indexerCount, pack,
                                            SetProjectorFunc(TypeIsLive))
            IN [thrown |-> r.thrown, invoked |-> r.invoked,
                hr |-> IF r.thrown = NoExc THEN "S_OK" ELSE "none"]

\* BoundIterableWithIndexable::SetAt on a binding made by
\* AddReadOnlyIndexableGeneratorFunction: catch(...) returns
\* ReturnResult(current_exception()).
ReadOnlyIndexable_SetAt ==
    /\ \E Dimensionality \in 1 .. 2, indexerCount \in 0 .. 3 :
         \E pack \in [1 .. indexerCount -> ArgKinds] :
           LET r == BoundIterableWithIndexable_SetAt(Dimensionality, indexerCount, pack)
           IN \E tc \in IterTranscodesFor(r.thrown) :
                LET rr == IF r.thrown # NoExc THEN ReturnResult(r.thrown, FALSE, tc)
                          ELSE [hr |-> r.hr, error |-> FALSE, escaped |-> NoExc]
                IN last' = [NoLast EXCEPT !.op = "SetAt",
                               !.binding = "AddReadOnlyIndexableGeneratorFunction",
                               !.dims = indexerCount, !.hr = rr.hr,
                               !.raised = r.thrown, !.escaped = rr.escaped,
                               !.error = rr.error,
                               !.dimensionality = Dimensionality,
                               !.mismatch = \E j \in 1 .. indexerCount :
                                               pack[j] = "mismatch",
                               !.wasLive = TypeIsLive]
    /\ UNCHANGED <<TypeIsLive, instanceAlive, IterFrame, OtherFrame>>

(***************************************************************************)
(* Boxing of intrinsic values: IntrinsicTypeTraits and BoxObjectIntrinsic. *)
(*                                                                         *)
(* A native value is its object representation, a sequence of bytes with   *)
(* the least significant first.  A VARIANT is a tag and the eight bytes of *)
(* its data union; bytes nobody wrote hold whatever was there.             *)
(***************************************************************************)
IntrinsicTypes ==
    {"char", "unsigned char", "short", "unsigned short", "int", "unsigned int",
     "long", "unsigned long", "__int64", "unsigned __int64", "float", "double",
     "bool"}

\* sizeof(T) on the Windows targets the header builds for.
SizeOf(T) ==
    CASE T \in {"char", "unsigned char", "bool"}                     -> 1
      [] T \in {"short", "unsigned short"}                           -> 2
      [] T \in {"int", "unsigned int", "long", "unsigned long", "float"} -> 4
      [] OTHER                                                       -> 8

\* A tag that gives every integral type the four-byte unsigned member.
VariantType_Narrow(T) == IF T = "bool" THEN "VT_BOOL" ELSE "VT_UI4"

\* BaseIntrinsicTypeTraits<T>::VariantType
VariantType(T) ==
    CASE T = "char"             -> "VT_I1"
      [] T = "unsigned char"    -> "VT_UI1"
      [] T = "short"            -> "VT_I2"
      [] T = "unsigned short"   -> "VT_UI2"
      [] T = "int"              -> "VT_I4"
      [] T = "unsigned int"     -> "VT_UI4"
      [] T = "long"             -> "VT_UI4"
      [] T = "unsigned long"    -> "VT_UI4"
      [] T = "__int64"          -> "VT_I8"
      [] T = "unsigned __int64" -> "VT_UI8"
      [] T = "float"            -> "VT_R4"
      [] T = "double"           -> "VT_R8"
      [] OTHER                  -> "VT_BOOL"

\* The width of the union member a tag selects (VARIANT_BOOL is a short).
TagWidth(vt) ==
    CASE vt \in {"VT_I1", "VT_UI1"}          -> 1
      [] vt \in {"VT_I2", "VT_UI2", "VT_BOOL"} -> 2
      [] vt \in {"VT_I4", "VT_UI4", "VT_R4"} -> 4
      [] OTHER                               -> 8

VARIANT_TRUE == << 255, 255 >>
VARIANT_FALSE == << 0, 0 >>
ByteValues == {0, 1, 127, 128, 255}
GarbageBytes == {0, 255}
DataBytes == 1 .. 8

\* The values boxed: every combination of lowest byte, highest byte and a
\* byte repeated in between (0, 1, -1, the minimum and the maximum of every
\* integer type are among them); true and false for bool.
ValuesOf(T) ==
    IF T = "bool" THEN {<< 0 >>, << 1 >>}
    ELSE {[k \in 1 .. SizeOf(T) |-> IF k = 1 THEN lo
                                    ELSE IF k = SizeOf(T) THEN hi ELSE fill] :
            lo \in ByteValues, fill \in ByteValues, hi \in ByteValues}

\* Storing bytes at the start of the data union of a variant.
Store(bytes, garbage) ==
    [k \in DataBytes |-> IF k <= Len(bytes) THEN bytes[k] ELSE garbage]

\* IntrinsicTypeTraits<T>::FillVariant, IntrinsicTypeTraits<bool>::FillVariant
FillVariant(T, val, garbage) ==
    [vt |-> VariantType(T),
     data |-> IF T = "bool"
              THEN Store(IF val # << 0 >> THEN VARIANT_TRUE ELSE VARIANT_FALSE, garbage)
              ELSE Store(val, garbage)]

\* IntrinsicTypeTraits<T>::ExtractFromVariant, <bool>::ExtractFromVariant
ExtractFromVariant(T, var) ==
    IF T = "bool"
    THEN IF SubSeq(var.data, 1, 2) = VARIANT_TRUE THEN << 1 >> ELSE << 0 >>
    ELSE SubSeq(var.data, 1, SizeOf(T))

\* Exceptions::ThrowHr without an error object
ThrowHr(hr) ==
    CASE hr \in {"E_INVALIDARG", "DISP_E_TYPEMISMATCH"} -> Exc("invalid_argument", "-", FALSE)
      [] hr = "E_OUTOFMEMORY"         -> bad_alloc
      [] hr = "E_BOUNDS"              -> Exc("range_error", "-", FALSE)
      [] hr = "E_NOTIMPL"             -> Exc("not_implemented", "-", FALSE)
      [] hr = "E_UNEXPECTED"          -> Exc("unexpected_error", "-", FALSE)
      [] hr = "E_ILLEGAL_METHOD_CALL" -> Exc("illegal_operation", "-", FALSE)
      [] hr = "E_NOT_SET"             -> Exc("not_set", "-", FALSE)
      [] OTHER                        -> Exc("hr_exception", hr, FALSE)

\* CheckHr
CheckHr(hr) == IF hr = "S_OK" THEN NoExc ELSE ThrowHr(hr)

\* IDataModelManager::CreateIntrinsicObject of the host: the object keeps
\* the tag and the union member the tag selects.
CreateIntrinsicObject(var) ==
    [kind |-> "ObjectIntrinsic", vt |-> var.vt,
     bits |-> SubSeq(var.data, 1, TagWidth(var.vt))]

\* IModelObject::GetIntrinsicValueAs of the host for the tag the object was
\* made with: the kept member comes back under that tag.
GetIntrinsicValueAs(obj, vt, garbage) ==
    [vt |-> vt, data |-> Store(obj.bits, garbage)]

HostResults == {"S_OK", "E_OUTOFMEMORY", "E_FAIL"}
NoObject == [kind |-> "none", vt |-> "VT_EMPTY", bits |-> << >>]

\* BoxObjectIntrinsic<T>::Box
BoxObjectIntrinsic_Box(T, val, garbage, hr) ==
    LET vtVal == FillVariant(T, val, garbage)
    IN IF CheckHr(hr) # NoExc THEN [thrown |-> CheckHr(hr), obj |-> NoObject]
       ELSE [thrown |-> NoExc, obj |-> CreateIntrinsicObject(vtVal)]

\* BoxObjectIntrinsic<T>::Unbox
BoxObjectIntrinsic_Unbox(T, src, garbage, hr) ==
    IF CheckHr(hr) # NoExc THEN [thrown |-> CheckHr(hr), val |-> << >>]
    ELSE [thrown |-> NoExc,
          val |-> ExtractFromVariant(T, GetIntrinsicValueAs(src, VariantType(T), garbage))]

BxIdle ==
    [phase |-> "idle", T |-> "-", val |-> << >>, obj |-> NoObject, asT |-> "-",
     out |-> << >>, raised |-> NoExc, hrKind |-> "none", hr |-> "none"]

\* Native code boxes a value of an intrinsic type.
Box ==
    /\ bx.phase = "idle"
    /\ \E T \in IntrinsicTypes, garbage \in GarbageBytes, hr \in HostResults :
         \E val \in ValuesOf(T) :
           LET r == BoxObjectIntrinsic_Box(T, val, garbage, hr)
           IN bx' = [BxIdle EXCEPT !.phase = IF r.thrown = NoExc THEN "boxed" ELSE "failed",
                                   !.T = T, !.val = val, !.obj = r.obj,
                                   !.raised = r.thrown]
    /\ UNCHANGED <<TypeIsLive, instanceAlive, IterFrame, last, inv, cv, px, sel, ba, ix, en, dtor, reg>>

\* Native code unboxes the object as a type whose tag is the object's.
Unbox ==
    /\ bx.phase = "boxed"
    /\ \E T \in IntrinsicTypes, garbage \in GarbageBytes, hr \in HostResults :
         /\ VariantType(T) = bx.obj.vt
         /\ LET r == BoxObjectIntrinsic_Unbox(T, bx.obj, garbage, hr)
            IN bx' = [bx EXCEPT !.phase = "unboxed", !.asT = T, !.out = r.val,
                                !.raised = r.thrown, !.hr = hr]
    /\ UNCHANGED <<TypeIsLive, instanceAlive, IterFrame, last, inv, cv, px, sel, ba, ix, en, dtor, reg>>

\* The boxed object is released.
Release ==
    /\ bx.phase \in {"boxed", "unboxed", "failed"}
    /\ bx' = BxIdle
    /\ UNCHANGED <<TypeIsLive, instanceAlive, IterFrame, last, inv, cv, px, sel, ba, ix, en, dtor, reg>>

(***************************************************************************)
(* Unboxing an object of another kind: BoxObjectBase::CheckType,           *)
(* ExtractInterface, BoxObjectInterface and BoxObjectIntrinsic::Unbox.     *)
(***************************************************************************)

\* The interfaces InterfaceTraits is specialised for.
InterfaceTypes ==
    {"IModelMethod", "IModelPropertyAccessor", "IModelKeyReference",
     "IDebugHostContext"}

\* InterfaceTraits<TInterface>::ObjectKind
InterfaceTraits_ObjectKind(TInterface) ==
    CASE TInterface = "IModelMethod"           -> "ObjectMethod"
      [] TInterface = "IModelPropertyAccessor" -> "ObjectPropertyAccessor"
      [] TInterface = "IModelKeyReference"     -> "ObjectKeyReference"
      [] OTHER                                 -> "ObjectContext"

\* The kinds of object that hold no scalar.
OtherKinds ==
    {"ObjectSynthetic", "ObjectNoValue", "ObjectMethod", "ObjectPropertyAccessor",
     "ObjectKeyReference", "ObjectContext"}

\* The address of the interface an object of an interface kind holds.
InterfaceAddress == [k \in DataBytes |-> IF k = 2 THEN 128 ELSE 0]

\* BoxObjectInterface<TInterface>::Box by kind: the object the host makes
\* of a VT_UNKNOWN variant; an object of any other kind holds no variant.
ObjectOfKind(mk) ==
    IF mk \in {InterfaceTraits_ObjectKind(I) : I \in InterfaceTypes}
    THEN [kind |-> mk, vt |-> "VT_UNKNOWN", bits |-> InterfaceAddress]
    ELSE [kind |-> mk, vt |-> "VT_EMPTY", bits |-> << >>]

\* The status codes the host's conversion of an object's value to a tag can
\* return: any of its codes for the tag the object was made with, a failure
\* of the host's choosing for an object that holds no such value.
ConversionFailures == {"E_INVALIDARG", "DISP_E_TYPEMISMATCH", "E_FAIL", "E_OUTOFMEMORY"}
GetIntrinsicValueAs_Status(obj, vt) ==
    IF obj.kind = "ObjectIntrinsic" /\ obj.vt = vt THEN HostResults
    ELSE ConversionFailures

\* A CheckType that lets every kind through.
CheckType_AnyKind(mk, requiredKind, hr) == CheckHr(hr)

\* BoxObjectBase::CheckType; hr is the status code of GetKind.
CheckType(mk, requiredKind, hr) ==
    IF CheckHr(hr) # NoExc THEN CheckHr(hr)
    ELSE IF mk # requiredKind THEN invalid_argument
    ELSE NoExc

\* BoxObjectBase::ExtractInterface; hr is the status code of
\* GetIntrinsicValue.
ExtractInterface(src, hr) ==
    IF CheckHr(hr) # NoExc THEN [thrown |-> CheckHr(hr), val |-> << >>]
    ELSE IF src.vt # "VT_UNKNOWN" THEN [thrown |-> invalid_argument, val |-> << >>]
    ELSE [thrown |-> NoExc, val |-> src.bits]

\* BoxObjectInterface<TInterface>::Unbox
BoxObjectInterface_Unbox(TInterface, src, hrKind, hrValue) ==
    LET checked == CheckType(src.kind, InterfaceTraits_ObjectKind(TInterface), hrKind)
    IN IF checked # NoExc THEN [thrown |-> checked, val |-> << >>]
       ELSE ExtractInterface(src, hrValue)

\* The host hands native code an object that holds no scalar.
Receive ==
    /\ bx.phase = "idle"
    /\ \E mk \in OtherKinds :
         bx' = [BxIdle EXCEPT !.phase = "boxed", !.T = mk, !.obj = ObjectOfKind(mk)]
    /\ UNCHANGED <<TypeIsLive, instanceAlive, IterFrame, last, inv, cv, px, sel, ba, ix, en, dtor, reg>>

\* Native code unboxes such an object as an intrinsic type.
UnboxAsIntrinsic ==
    /\ bx.phase = "boxed"
    /\ bx.obj.kind \in OtherKinds
    /\ \E T \in IntrinsicTypes, garbage \in GarbageBytes :
         \E hr \in GetIntrinsicValueAs_Status(bx.obj, VariantType(T)) :
           LET r == BoxObjectIntrinsic_Unbox(T, bx.obj, garbage, hr)
           IN bx' = [bx EXCEPT !.phase = "unboxed", !.asT = T, !.out = r.val,
                               !.raised = r.thrown, !.hr = hr]
    /\ UNCHANGED <<TypeIsLive, instanceAlive, IterFrame, last, inv, cv, px, sel, ba, ix, en, dtor, reg>>

\* Native code unboxes an object as an interface.
UnboxAsInterface ==
    /\ bx.phase = "boxed"
    /\ \E TInterface \in InterfaceTypes, hrKind \in HostResults, hrValue \in HostResults :
         LET r == BoxObjectInterface_Unbox(TInterface, bx.obj, hrKind, hrValue)
         IN bx' = [bx EXCEPT !.phase = "unboxed", !.asT = TInterface, !.out = r.val,
                             !.raised = r.thrown, !.hrKind = hrKind,
                             !.hr = IF CheckType(bx.obj.kind,
                                                 InterfaceTraits_ObjectKind(TInterface),
                                                 hrKind) = NoExc
                                    THEN hrValue ELSE "none"]
    /\ UNCHANGED <<TypeIsLive, instanceAlive, IterFrame, last, inv, cv, px, sel, ba, ix, en, dtor, reg>>

(***************************************************************************)
(* Boxing::BoxObject<std::optional<T>>.                                    *)
(*                                                                         *)
(* An optional is [has, value]; the value of an empty one is the           *)
(* placeholder of its value type.                                          *)
(***************************************************************************)

\* The optional types boxed, and the T of each optional<T>.
OptionalTypes ==
    {"optional<int>", "optional<bool>", "optional<Object>", "optional<optional<int>>"}
ValueType(T) ==
    CASE T = "optional<int>"    -> "int"
      [] T = "optional<bool>"   -> "bool"
      [] T = "optional<Object>" -> "Object"
      [] OTHER                  -> "optional<int>"

\* Object::CreateNoValue
CreateNoValue(hr) ==
    IF CheckHr(hr) # NoExc THEN [thrown |-> CheckHr(hr), obj |-> NoObject]
    ELSE [thrown |-> NoExc, obj |-> ObjectOfKind("ObjectNoValue")]

\* The objects an Object can hold here: a boxed int and a no-value object.
HeldObjects ==
    {CreateIntrinsicObject(FillVariant("int", << 7, 0, 0, 0 >>, 0)),
     ObjectOfKind("ObjectNoValue")}

\* std::nullopt and an engaged optional.
RECURSIVE Placeholder(_)
Placeholder(T) ==
    CASE T \in OptionalTypes -> [has |-> FALSE, value |-> Placeholder(ValueType(T))]
      [] T = "Object"        -> NoObject
      [] OTHER               -> << >>
Nullopt(T) == [has |-> FALSE, value |-> Placeholder(ValueType(T))]
Engaged(v) == [has |-> TRUE, value |-> v]

\* The native values of a type.
RECURSIVE NativeValues(_)
NativeValues(T) ==
    CASE T \in OptionalTypes ->
            {Nullopt(T)} \cup {Engaged(v) : v \in NativeValues(ValueType(T))}
      [] T = "Object"        -> HeldObjects
      [] T = "int"           -> {<< lo, fill, fill, hi >> :
                                    lo \in {0, 1, 255}, fill \in {0, 255},
                                    hi \in {0, 127, 128, 255}}
      [] OTHER               -> ValuesOf(T)

\* A test of the kind that finds no object to be the no-value marker.
IsNoValue_Never(mk) == FALSE

\* mk == ObjectNoValue
IsNoValue(mk) == mk = "ObjectNoValue"

\* Boxing::BoxObject<T>::Box for optional<T>, Object and the intrinsic
\* types; hr is the status code of the host call that makes the object.
RECURSIVE BoxObject_Box(_, _, _, _)
BoxObject_Box(T, src, garbage, hr) ==
    CASE T \in OptionalTypes ->
            IF src.has THEN BoxObject_Box(ValueType(T), src.value, garbage, hr)
            ELSE CreateNoValue(hr)
      [] T = "Object" -> [thrown |-> NoExc, obj |-> src]
      [] OTHER        -> BoxObjectIntrinsic_Box(T, src, garbage, hr)

\* Boxing::BoxObject<T>::Unbox for the same types; hrKind is the status
\* code of GetKind, hr that of GetIntrinsicValueAs.
RECURSIVE BoxObject_Unbox(_, _, _, _, _)
BoxObject_Unbox(T, src, garbage, hrKind, hr) ==
    CASE T \in OptionalTypes ->
            IF CheckHr(hrKind) # NoExc
            THEN [thrown |-> CheckHr(hrKind), val |-> Nullopt(T)]
            ELSE IF IsNoValue(src.kind) THEN [thrown |-> NoExc, val |-> Nullopt(T)]
            ELSE LET r == BoxObject_Unbox(ValueType(T), src, garbage, hrKind, hr)
                 IN IF r.thrown # NoExc THEN [thrown |-> r.thrown, val |-> Nullopt(T)]
                    ELSE [thrown |-> NoExc, val |-> Engaged(r.val)]
      [] T = "Object" -> [thrown |-> NoExc, val |-> src]
      [] OTHER        -> BoxObjectIntrinsic_Unbox(T, src, garbage, hr)

\* The type at the bottom of an optional type, and the status codes the
\* host can return when a value of that type is asked of an object.
RECURSIVE BottomType(_)
BottomType(T) == IF T \in OptionalTypes THEN BottomType(ValueType(T)) ELSE T
StatusFor(T, obj) ==
    IF BottomType(T) = "Object" THEN {"S_OK"}
    ELSE GetIntrinsicValueAs_Status(obj, VariantType(BottomType(T)))

\* Native code boxes an optional.
BoxOptional ==
    /\ bx.phase = "idle"
    /\ \E T \in OptionalTypes, garbage \in GarbageBytes, hr \in HostResults :
         \E src \in NativeValues(T) :
           LET r == BoxObject_Box(T, src, garbage, hr)
           IN bx' = [BxIdle EXCEPT !.phase = IF r.thrown = NoExc THEN "optional boxed"
                                             ELSE "failed",
                                   !.T = T, !.val = src, !.obj = r.obj,
                                   !.raised = r.thrown]
    /\ UNCHANGED <<TypeIsLive, instanceAlive, IterFrame, last, inv, cv, px, sel, ba, ix, en, dtor, reg>>

\* Native code unboxes the object as the optional type it was boxed from.
UnboxOptional ==
    /\ bx.phase = "optional boxed"
    /\ \E garbage \in GarbageBytes, hrKind \in HostResults,
          hr \in StatusFor(bx.T, bx.obj) :
         LET r == BoxObject_Unbox(bx.T, bx.obj, garbage, hrKind, hr)
         IN bx' = [bx EXCEPT !.phase = "optional unboxed", !.asT = bx.T,
                             !.out = r.val, !.raised = r.thrown,
                             !.hrKind = hrKind, !.hr = hr]
    /\ UNCHANGED <<TypeIsLive, instanceAlive, IterFrame, last, inv, cv, px, sel, ba, ix, en, dtor, reg>>

\* The boxed optional is released.
ReleaseOptional ==
    /\ bx.phase \in {"optional boxed", "optional unboxed", "failed"}
    /\ bx' = BxIdle
    /\ UNCHANGED <<TypeIsLive, instanceAlive, IterFrame, last, inv, cv, px, sel, ba, ix, en, dtor, reg>>

(***************************************************************************)
(* PointerIndexerAdapter: pointer[i] on a boxed raw pointer.               *)
(*                                                                         *)
(* A ULONG64 is its eight bytes, least significant first; sums and         *)
(* products are taken byte by byte with carries and cut off after the      *)
(* eighth byte, which is arithmetic modulo 2^64.                           *)
(***************************************************************************)

\* a + b (+ carry) over the bytes k .. width, the carry out dropped.
RECURSIVE AddFrom(_, _, _, _, _)
AddFrom(a, b, k, carry, width) ==
    IF k > width THEN << >>
    ELSE LET t == a[k] + b[k] + carry
         IN << t % 256 >> \o AddFrom(a, b, k + 1, t \div 256, width)

\* ULONG64 + ULONG64
Add64(a, b) == AddFrom(a, b, 1, 0, 8)

\* The sum of the byte products that land in byte k of a product.
ColumnSum(a, b, k) ==
    LET S[i \in 0 .. k] == IF i = 0 THEN 0 ELSE S[i - 1] + a[i] * b[k + 1 - i]
    IN S[k]

RECURSIVE MulFrom(_, _, _, _)
MulFrom(a, b, k, carry) ==
    IF k > 8 THEN << >>
    ELSE LET t == ColumnSum(a, b, k) + carry
         IN << t % 256 >> \o MulFrom(a, b, k + 1, t \div 256)

\* ULONG64 * ULONG64
Mul64(a, b) == MulFrom(a, b, 1, 0)

\* The integer types an index object is made of, and the values tried: 0,
\* 1, 2, -1 (or the maximum of an unsigned type), the minimum and the
\* maximum.
IndexTypes == {"char", "int", "unsigned int", "__int64"}
IsSigned(T) == T \in {"char", "short", "int", "__int64"}
Rep(T, lo, fill, hi) ==
    [k \in 1 .. SizeOf(T) |-> IF k = SizeOf(T) THEN hi
                              ELSE IF k = 1 THEN lo ELSE fill]
IndexValues(T) ==
    IF SizeOf(T) = 1 THEN {<< 0 >>, << 1 >>, << 2 >>, << 255 >>, << 128 >>, << 127 >>}
    ELSE {Rep(T, 0, 0, 0), Rep(T, 1, 0, 0), Rep(T, 2, 0, 0), Rep(T, 255, 255, 255),
          Rep(T, 0, 0, 128), Rep(T, 255, 255, 127)}

\* The host's conversion of an integer object to an eight-byte integer:
\* the value is kept, so a signed source is sign-extended and an unsigned
\* one zero-extended.
Widen(T, bits) ==
    LET ext == IF IsSigned(T) /\ bits[Len(bits)] >= 128 THEN 255 ELSE 0
    IN [k \in DataBytes |-> IF k <= Len(bits) THEN bits[k] ELSE ext]

\* A conversion of the index that drops its sign.
IndexAsI8_Unsigned(T, bits) ==
    [k \in DataBytes |-> IF k <= Len(bits) THEN bits[k] ELSE 0]

\* pIndex->GetIntrinsicValueAs(VT_I8, &vtAdjustment): vtAdjustment.llVal
IndexAsI8(T, bits) == Widen(T, bits)

\* The pointers boxed, the sizes of their base types, and what the type of
\* the context object can be.
Pointers ==
    {[k \in DataBytes |-> IF k = 2 THEN 16 ELSE 0],
     [k \in DataBytes |-> IF k = 1 THEN 252 ELSE IF k <= 4 THEN 255 ELSE 0],
     [k \in DataBytes |-> IF k = 1 THEN 248 ELSE 255]}
BaseSizes == {1, 4, 8}
SizeBytes(n) == [k \in DataBytes |-> IF k = 1 THEN n ELSE 0]
TypeShapes == {"PointerStandard", "PointerReference", "NotAPointer", "NoType"}

\* GetAdjustedLocationAndBaseType: hostHr is the status code of the first
\* host call that fails (S_OK when none does).
GetAdjustedLocationAndBaseType(shape, ptr, baseSize, T, bits, hostHr) ==
    IF CheckHr(hostHr) # NoExc THEN [thrown |-> CheckHr(hostHr), location |-> << >>]
    ELSE IF shape # "PointerStandard"
    THEN [thrown |-> unexpected_error, location |-> << >>]
    ELSE [thrown |-> NoExc,
          location |-> Add64(ptr, Mul64(SizeBytes(baseSize), IndexAsI8(T, bits)))]

NoAccess ==
    [op |-> "none", indexerCount |-> 0, T |-> "-", bits |-> << >>, hr |-> "none",
     raised |-> NoExc, escaped |-> NoExc, error |-> FALSE, location |-> << >>,
     object |-> "none"]

\* PointerIndexerAdapter::GetAt up to its catch block: the typed object
\* the host is asked to create at the adjusted location.
PointerIndexerAdapter_GetAtBody(indexerCount, T, bits, hrLocation, hrCreate) ==
    IF indexerCount # 1
    THEN [thrown |-> Exc("illegal_operation", "-", TRUE), location |-> << >>,
          object |-> "none"]
    ELSE LET a == GetAdjustedLocationAndBaseType(px.shape, px.ptr, px.baseSize,
                                                 T, bits, hrLocation)
         IN IF a.thrown # NoExc
            THEN [thrown |-> a.thrown, location |-> << >>, object |-> "none"]
            ELSE IF CheckHr(hrCreate) # NoExc
            THEN [thrown |-> CheckHr(hrCreate), location |-> << >>, object |-> "none"]
            ELSE [thrown |-> NoExc, location |-> a.location,
                  object |-> "TypedObject(baseType)"]

\* PointerIndexerAdapter::SetAt up to its catch block: the object of type
\* reference-to-base-type made at the adjusted location, which AssignTo is
\* called on.
PointerIndexerAdapter_SetAtBody(indexerCount, T, bits, hrLocation, hrAssign) ==
    IF indexerCount # 1
    THEN [thrown |-> Exc("illegal_operation", "-", TRUE), location |-> << >>,
          object |-> "none"]
    ELSE LET a == GetAdjustedLocationAndBaseType(px.shape, px.ptr, px.baseSize,
                                                 T, bits, hrLocation)
         IN IF a.thrown # NoExc
            THEN [thrown |-> a.thrown, location |-> << >>, object |-> "none"]
            ELSE IF CheckHr(hrAssign) # NoExc
            THEN [thrown |-> CheckHr(hrAssign), location |-> << >>, object |-> "none"]
            ELSE [thrown |-> NoExc, location |-> a.location,
                  object |-> "AssignTo(PointerReference(baseType))"]

\* What an access leaves behind once ReturnResult has run.
Accessed(op, indexerCount, T, bits, r, wantError, tc) ==
    LET rr == IF r.thrown # NoExc THEN ReturnResult(r.thrown, wantError, tc)
              ELSE [hr |-> "S_OK", error |-> FALSE, escaped |-> NoExc]
    IN [op |-> op, indexerCount |-> indexerCount, T |-> T, bits |-> bits,
        hr |-> rr.hr, raised |-> r.thrown, escaped |-> rr.escaped,
        error |-> rr.error, location |-> r.location, object |-> r.object]

PxIdle ==
    [phase |-> "idle", shape |-> "NoType", ptr |-> << >>, baseSize |-> 0,
     acc |-> NoAccess]

\* A raw pointer is boxed: the host holds its value and its type.
BoxPointer ==
    /\ px.phase = "idle"
    /\ \E shape \in TypeShapes, ptr \in Pointers, baseSize \in BaseSizes :
         px' = [PxIdle EXCEPT !.phase = "boxed", !.shape = shape, !.ptr = ptr,
                              !.baseSize = baseSize]
    /\ UNCHANGED <<TypeIsLive, instanceAlive, IterFrame, last, inv, bx, cv, sel, ba, ix, en, dtor, reg>>

\* PointerIndexerAdapter::GetAt
PointerIndexerAdapter_GetAt ==
    /\ px.phase = "boxed"
    /\ \E indexerCount \in 0 .. 2, T \in IndexTypes, hrLocation \in HostResults,
          hrCreate \in HostResults :
         \E bits \in IndexValues(T) :
           \* the later host call is made when the earlier ones succeeded,
           \* no host call is made when the count is not one, and the
           \* accesses that fail are tried with index 0
           /\ hrLocation = "S_OK" \/ hrCreate = "S_OK"
           /\ indexerCount = 1 \/ (hrLocation = "S_OK" /\ hrCreate = "S_OK")
           /\ \/ T = "int" /\ bits = Rep(T, 0, 0, 0)
              \/ /\ indexerCount = 1 /\ px.shape = "PointerStandard"
                 /\ hrLocation = "S_OK" /\ hrCreate = "S_OK"
           /\ LET r == PointerIndexerAdapter_GetAtBody(indexerCount, T, bits,
                                                       hrLocation, hrCreate)
              IN \E tc \in IterTranscodesFor(r.thrown) :
                   px' = [px EXCEPT !.acc = Accessed("GetAt", indexerCount, T, bits,
                                                     r, TRUE, tc)]
    /\ UNCHANGED <<TypeIsLive, instanceAlive, IterFrame, last, inv, bx, cv, sel, ba, ix, en, dtor, reg>>

\* PointerIndexerAdapter::SetAt
PointerIndexerAdapter_SetAt ==
    /\ px.phase = "boxed"
    /\ \E indexerCount \in 0 .. 2, T \in IndexTypes, hrLocation \in HostResults,
          hrAssign \in HostResults :
         \E bits \in IndexValues(T) :
           \* the later host call is made when the earlier ones succeeded,
           \* no host call is made when the count is not one, and the
           \* accesses that fail are tried with index 0
           /\ hrLocation = "S_OK" \/ hrAssign = "S_OK"
           /\ indexerCount = 1 \/ (hrLocation = "S_OK" /\ hrAssign = "S_OK")
           /\ \/ T = "int" /\ bits = Rep(T, 0, 0, 0)
              \/ /\ indexerCount = 1 /\ px.shape = "PointerStandard"
                 /\ hrLocation = "S_OK" /\ hrAssign = "S_OK"
           /\ LET r == PointerIndexerAdapter_SetAtBody(indexerCount, T, bits,
                                                       hrLocation, hrAssign)
              IN \E tc \in IterTranscodesFor(r.thrown) :
                   px' = [px EXCEPT !.acc = Accessed("SetAt", indexerCount, T, bits,
                                                     r, FALSE, tc)]
    /\ UNCHANGED <<TypeIsLive, instanceAlive, IterFrame, last, inv, bx, cv, sel, ba, ix, en, dtor, reg>>

\* The boxed pointer is released.
ReleasePointer ==
    /\ px.phase = "boxed"
    /\ px' = PxIdle
    /\ UNCHANGED <<TypeIsLive, instanceAlive, IterFrame, last, inv, bx, cv, sel, ba, ix, en, dtor, reg>>

(***************************************************************************)
(* The choice of a boxer: BoxObject(T&&), BoxSelector, Boxing::BoxObject.  *)
(*                                                                         *)
(* A type is what the selection looks at: whether it is an array (of       *)
(* characters or not), whether Boxing::BoxObject is specialised for it,    *)
(* its call operators (none, one, or an overloaded or template one),       *)
(* whether it has member begin() and end(), whether it has intrinsic       *)
(* traits, and how it is qualified.  The traits and the specialisations    *)
(* are those of the unqualified type: a reference type has no members and  *)
(* no specialisation matches it.                                           *)
(***************************************************************************)
\* What T of BoxObject(T&& obj) is deduced as: TX for an rvalue, TX& or
\* const TX& for an lvalue.
Qualifiers == {"T", "T&", "const T&"}
ClassTypes ==
    [array : {"no"}, specialised : BOOLEAN,
     callOperator : {"none", "one", "overloaded"}, beginEnd : BOOLEAN,
     intrinsicTraits : BOOLEAN, qualifier : Qualifiers]
ArrayTypes ==
    [array : {"char", "other"}, specialised : BOOLEAN, callOperator : {"none"},
     beginEnd : {FALSE}, intrinsicTraits : {FALSE}, qualifier : Qualifiers]
BoxableTypes == ClassTypes \cup ArrayTypes

\* std::remove_cv_t<std::remove_reference_t<T>>
TBase(T) == [T EXCEPT !.qualifier = "T"]

\* std::decay_t<T> of a type that is not an array
decay_t(T) == [T EXCEPT !.qualifier = "T"]

\* std::is_array_v<T>
is_array_v(T) == T.array # "no" /\ T.qualifier = "T"

\* Whether a specialisation of Boxing::BoxObject matches T.
IsSpecialised(T) == T.specialised /\ T.qualifier = "T"

\* has_call_operator_v<T>: decltype(&T::operator()) is well-formed, which
\* it is for a class with exactly one call operator that is not a template.
has_call_operator_v(T) == T.callOperator = "one" /\ T.qualifier = "T"

\* IsIterable_v<T>
IsIterable_v(T) == T.beginEnd

\* A primary template that looks for begin/end before the call operator.
Boxing_BoxObject_IterableFirst(T) ==
    IF IsSpecialised(T) THEN "specialisation"
    ELSE IF IsIterable_v(T) THEN "BoxObjectIterable"
    ELSE IF has_call_operator_v(T) THEN "BoxObjectMethod"
    ELSE "BoxObjectIntrinsic"

\* Boxing::BoxObject<T>: a specialisation when there is one, otherwise the
\* base class the primary template picks.
Boxing_BoxObject(T) ==
    IF IsSpecialised(T) THEN "specialisation"
    ELSE IF has_call_operator_v(T) THEN "BoxObjectMethod"
    ELSE IF IsIterable_v(T) THEN "BoxObjectIterable"
    ELSE "BoxObjectIntrinsic"

\* Details::BoxObjectArray<T, N>: character arrays box as strings.
BoxObjectArray(T) ==
    IF T.array = "char" THEN "BoxObject<const char *>" ELSE "BoxObjectArray"

\* Details::BoxSelector<T>
BoxSelector(T) ==
    IF is_array_v(T) THEN BoxObjectArray(T) ELSE Boxing_BoxObject(decay_t(T))

\* The static_assert of BoxObjectIntrinsic::Box: the type needs intrinsic
\* traits when the intrinsic boxer is the one selected.
BoxCompiles(T) == BoxSelector(T) = "BoxObjectIntrinsic" => T.intrinsicTraits

SelIdle ==
    [phase |-> "idle",
     T |-> [array |-> "no", specialised |-> FALSE, callOperator |-> "none",
            beginEnd |-> FALSE, intrinsicTraits |-> FALSE, qualifier |-> "T"],
     boxer |-> "none", compiles |-> FALSE]

\* A call of BoxObject on a value of some type is written.
WriteBoxCall ==
    /\ sel.phase = "idle"
    /\ \E T \in BoxableTypes :
         sel' = [SelIdle EXCEPT !.phase = "written", !.T = T]
    /\ UNCHANGED <<TypeIsLive, instanceAlive, IterFrame, last, inv, bx, cv, px, ba, ix, en, dtor, reg>>

\* BoxObject(T&& obj) is instantiated: TBox = BoxSelector<TBase>.
InstantiateBoxObject ==
    /\ sel.phase = "written"
    /\ sel' = [sel EXCEPT !.phase = "instantiated",
                          !.boxer = BoxSelector(TBase(sel.T)),
                          !.compiles = BoxCompiles(TBase(sel.T))]
    /\ UNCHANGED <<TypeIsLive, instanceAlive, IterFrame, last, inv, bx, cv, px, ba, ix, en, dtor, reg>>

\* The call is taken out of the program again.
RemoveBoxCall ==
    /\ sel.phase \in {"written", "instantiated"}
    /\ sel' = SelIdle
    /\ UNCHANGED <<TypeIsLive, instanceAlive, IterFrame, last, inv, bx, cv, px, ba, ix, en, dtor, reg>>

(***************************************************************************)
(* A condition raised behind a host-facing entry point, reported as a      *)
(* status code, and raised again from that code on the caller's side.      *)
(***************************************************************************)

\* Status codes an hr_exception is built with: ThrowHr's default case and
\* HRESULT_FROM_WIN32(GetLastError()) of the resource string loader.
PassthroughCodes == {"E_FAIL", "E_ACCESSDENIED", "E_OUTOFMEMORY", "E_INVALIDARG"}

\* The condition categories of the library.
Conditions ==
    {Exc(t, "-", m) : t \in {"invalid_argument", "range_error", "not_implemented",
                             "unexpected_error", "illegal_operation", "not_set",
                             "object_detached"},
                     m \in BOOLEAN}
      \cup {bad_alloc}
      \cup {Exc("hr_exception", h, m) : h \in PassthroughCodes, m \in BOOLEAN}

CvIdle == [phase |-> "idle", thrown |-> NoExc, wantError |-> FALSE, hr |-> "none",
           error |-> FALSE, escaped |-> NoExc, rethrown |-> NoExc]

\* Native code behind an entry point throws.
Throw ==
    /\ cv.phase = "idle"
    /\ \E e \in Conditions, wantError \in BOOLEAN :
         cv' = [CvIdle EXCEPT !.phase = "thrown", !.thrown = e, !.wantError = wantError]
    /\ UNCHANGED <<TypeIsLive, instanceAlive, IterFrame, last, inv, bx, px, sel, ba, ix, en, dtor, reg>>

\* catch(...) { return Exceptions::ReturnResult(current_exception(), ppError); }
Return ==
    /\ cv.phase = "thrown"
    /\ \E tc \in Transcodes :
         LET rr == ReturnResult(cv.thrown, cv.wantError, tc)
         IN cv' = [cv EXCEPT !.phase = "returned", !.hr = rr.hr, !.error = rr.error,
                             !.escaped = rr.escaped]
    /\ UNCHANGED <<TypeIsLive, instanceAlive, IterFrame, last, inv, bx, px, sel, ba, ix, en, dtor, reg>>

\* The caller hands the status code it got to CheckHr.
CheckBack ==
    /\ cv.phase = "returned"
    /\ cv.escaped = NoExc
    /\ cv' = [cv EXCEPT !.phase = "rethrown", !.rethrown = CheckHr(cv.hr)]
    /\ UNCHANGED <<TypeIsLive, instanceAlive, IterFrame, last, inv, bx, px, sel, ba, ix, en, dtor, reg>>

\* The caller is done with the condition.
Handled ==
    /\ cv.phase \in {"returned", "rethrown"}
    /\ cv' = CvIdle
    /\ UNCHANGED <<TypeIsLive, instanceAlive, IterFrame, last, inv, bx, px, sel, ba, ix, en, dtor, reg>>


(***************************************************************************)
(* BoxedArray<T>: the container a fixed-size native array boxes to, and    *)
(* its iterator.  T is int; an element is its four bytes.  The native      *)
(* array handed to BoxObject stays with the caller (ba.src), who may write *)
(* to it afterwards.                                                       *)
(***************************************************************************)
ElemValues == {<< 0, 0, 0, 0 >>, << 255, 255, 255, 255 >>}
SourceArrays == UNION {[1 .. n -> ElemValues] : n \in 1 .. MaxElems}

\* std::copy(pArray, pArray + arraySize, m_spArray.get())
std_copy(pArray, arraySize) == [k \in 1 .. arraySize |-> pArray[k]]

\* The indices the host passes: 0 .. MaxElems + 1 and 2^32, as ULONG64 objects.
IndexBytes ==
    {[k \in DataBytes |-> IF k = 1 THEN i ELSE 0] : i \in 0 .. MaxElems + 1}
        \cup {[k \in DataBytes |-> IF k = 5 THEN 1 ELSE 0]}
IndexObject(b) == CreateIntrinsicObject(FillVariant("unsigned __int64", b, 0))

\* A range test on the low byte of the index only.
IdxAtLeast_LowByte(idx, n) == idx[1] >= n

\* idx >= m_arraySize on ULONG64 values, and static_cast<size_t>(idx) for an
\* index that passed the test.
IdxAtLeast(idx, n) == (\E k \in 2 .. 8 : idx[k] # 0) \/ idx[1] >= n
IdxAsSizeT(idx) == idx[1]

NoCall ==
    [op |-> "none", indexerCount |-> 0, idx |-> << >>, val |-> << >>,
     dims |-> 0, hr |-> "none", raised |-> NoExc, escaped |-> NoExc,
     out |-> NoObject, indexers |-> << >>, hosted |-> TRUE]

BaIdle ==
    [phase |-> "idle", src |-> << >>, m_spArray |-> << >>, m_arraySize |-> 0,
     m_allowWrite |-> FALSE, made |-> FALSE, m_pos |-> 0, call |-> NoCall]

\* An assignment that overwrites the whole array.
AssignAt_Fill(arr, pos, v) == [k \in DOMAIN arr |-> v]

\* m_spArray[static_cast<size_t>(idx)] = (T)val
AssignAt(arr, pos, v) == [arr EXCEPT ![pos + 1] = v]

\* The outcome of a BoxedArray method whose body raised `thrown`:
\* catch(...) { return ReturnResult(std::current_exception(), ...); }
ArrayOutcome(c, thrown, tc) ==
    LET rr == IF thrown # NoExc THEN ReturnResult(thrown, FALSE, tc)
              ELSE [hr |-> "S_OK", error |-> FALSE, escaped |-> NoExc]
    IN [c EXCEPT !.hr = rr.hr, !.raised = thrown, !.escaped = rr.escaped]

\* BoxObjectArray<T, N>::Box: Object::Create, then Make<BoxedArray<T>>, whose
\* constructor copies the elements and sets the two concepts on the object.
BoxedArray_BoxedArray(pArray, arraySize) ==
    [BaIdle EXCEPT !.phase = "boxed", !.src = pArray,
                   !.m_spArray = std_copy(pArray, arraySize),
                   !.m_arraySize = arraySize, !.m_allowWrite = TRUE]

BoxArray ==
    /\ ba.phase = "idle"
    /\ \E src \in SourceArrays, hr \in HostResults :
         ba' = IF CheckHr(hr) # NoExc
               THEN [BaIdle EXCEPT !.call = [NoCall EXCEPT !.op = "BoxArray",
                                                           !.raised = CheckHr(hr)]]
               ELSE [BoxedArray_BoxedArray(src, Len(src))
                        EXCEPT !.call = [NoCall EXCEPT !.op = "BoxArray"]]
    /\ UNCHANGED <<TypeIsLive, instanceAlive, IterFrame, last, inv, bx, cv, px, sel, ix, en, dtor, reg>>

\* Native code writes to its own array after boxing it.
WriteSource ==
    /\ ba.phase = "boxed"
    /\ \E i \in 1 .. Len(ba.src), v \in ElemValues :
         /\ ba.src[i] # v
         /\ ba' = [ba EXCEPT !.src[i] = v, !.call = [NoCall EXCEPT !.op = "WriteSource"]]
    /\ UNCHANGED <<TypeIsLive, instanceAlive, IterFrame, last, inv, bx, cv, px, sel, ix, en, dtor, reg>>

\* BoxedArray::GetAt
BoxedArray_GetAtBody(b, indexerCount, idxObj, hrIdx, hrBox) ==
    IF indexerCount # 1
    THEN [ret |-> "E_INVALIDARG", thrown |-> NoExc, out |-> NoObject]
    ELSE LET idx == BoxObjectIntrinsic_Unbox("unsigned __int64", idxObj, 0, hrIdx)
         IN IF idx.thrown # NoExc
            THEN [ret |-> "-", thrown |-> idx.thrown, out |-> NoObject]
            ELSE IF IdxAtLeast(idx.val, b.m_arraySize)
            THEN [ret |-> "-", thrown |-> Exc("range_error", "-", TRUE), out |-> NoObject]
            ELSE LET result == BoxObjectIntrinsic_Box(
                                   "int", b.m_spArray[IdxAsSizeT(idx.val) + 1], 0, hrBox)
                 IN [ret |-> "-", thrown |-> result.thrown, out |-> result.obj]

BoxedArray_GetAt ==
    /\ ba.phase = "boxed"
    /\ \E indexerCount \in 0 .. 2, ib \in IndexBytes, hrIdx \in HostResults,
          hrBox \in HostResults :
         /\ indexerCount # 1 => ib[1] = 0 /\ ib[5] = 0 /\ hrIdx = "S_OK"
         /\ hrIdx # "S_OK" => ib[1] = 0 /\ ib[5] = 0
         /\ (hrIdx # "S_OK" \/ indexerCount # 1 \/ IdxAtLeast(ib, ba.m_arraySize))
                => hrBox = "S_OK"
         /\ LET r == BoxedArray_GetAtBody(ba, indexerCount, IndexObject(ib), hrIdx, hrBox)
                c == [NoCall EXCEPT !.op = "GetAt", !.indexerCount = indexerCount,
                                    !.idx = ib, !.out = r.out,
                                    !.hosted = (hrIdx = "S_OK" /\ hrBox = "S_OK")]
            IN \E tc \in IterTranscodesFor(r.thrown) :
                 ba' = [ba EXCEPT !.call =
                          IF r.ret # "-" THEN [c EXCEPT !.hr = r.ret]
                          ELSE ArrayOutcome(c, r.thrown, tc)]
    /\ UNCHANGED <<TypeIsLive, instanceAlive, IterFrame, last, inv, bx, cv, px, sel, ix, en, dtor, reg>>

\* BoxedArray::SetAt
BoxedArray_SetAtBody(b, indexerCount, idxObj, pValue, hrIdx, hrVal) ==
    IF ~b.m_allowWrite
    THEN [ret |-> "E_NOTIMPL", thrown |-> NoExc, arr |-> b.m_spArray]
    ELSE IF indexerCount # 1
    THEN [ret |-> "E_INVALIDARG", thrown |-> NoExc, arr |-> b.m_spArray]
    ELSE LET idx == BoxObjectIntrinsic_Unbox("unsigned __int64", idxObj, 0, hrIdx)
         IN IF idx.thrown # NoExc
            THEN [ret |-> "-", thrown |-> idx.thrown, arr |-> b.m_spArray]
            ELSE IF IdxAtLeast(idx.val, b.m_arraySize)
            THEN [ret |-> "-", thrown |-> Exc("range_error", "-", TRUE),
                  arr |-> b.m_spArray]
            ELSE LET val == BoxObjectIntrinsic_Unbox("int", pValue, 0, hrVal)
                 IN IF val.thrown # NoExc
                    THEN [ret |-> "-", thrown |-> val.thrown, arr |-> b.m_spArray]
                    ELSE [ret |-> "-", thrown |-> NoExc,
                          arr |-> AssignAt(b.m_spArray, IdxAsSizeT(idx.val), val.val)]

BoxedArray_SetAt ==
    /\ ba.phase = "boxed"
    /\ \E indexerCount \in 0 .. 2, ib \in IndexBytes, v \in ElemValues,
          hrIdx \in HostResults, hrVal \in HostResults :
         /\ indexerCount # 1 => ib[1] = 0 /\ ib[5] = 0 /\ hrIdx = "S_OK"
         /\ hrIdx # "S_OK" => ib[1] = 0 /\ ib[5] = 0
         /\ (hrIdx # "S_OK" \/ indexerCount # 1 \/ IdxAtLeast(ib, ba.m_arraySize))
                => hrVal = "S_OK" /\ v = << 0, 0, 0, 0 >>
         /\ LET pValue == CreateIntrinsicObject(FillVariant("int", v, 0))
                r == BoxedArray_SetAtBody(ba, indexerCount, IndexObject(ib), pValue,
                                          hrIdx, hrVal)
                c == [NoCall EXCEPT !.op = "SetAt", !.indexerCount = indexerCount,
                                    !.idx = ib, !.val = v,
                                    !.hosted = (hrIdx = "S_OK" /\ hrVal = "S_OK")]
            IN \E tc \in IterTranscodesFor(r.thrown) :
                 ba' = [ba EXCEPT !.m_spArray = r.arr,
                                  !.call = IF r.ret # "-" THEN [c EXCEPT !.hr = r.ret]
                                           ELSE ArrayOutcome(c, r.thrown, tc)]
    /\ UNCHANGED <<TypeIsLive, instanceAlive, IterFrame, last, inv, bx, cv, px, sel, ix, en, dtor, reg>>

\* BoxedArray::GetIterator: Make<Iterator>(this, m_spArray.get(), m_arraySize)
BoxedArray_GetIterator ==
    /\ ba.phase = "boxed"
    /\ ~ba.made
    /\ ba' = [ba EXCEPT !.made = TRUE, !.m_pos = 0,
                        !.call = [NoCall EXCEPT !.op = "GetIterator", !.hr = "S_OK"]]
    /\ UNCHANGED <<TypeIsLive, instanceAlive, IterFrame, last, inv, bx, cv, px, sel, ix, en, dtor, reg>>

\* BoxedArray::Iterator::Reset
BoxedArray_Iterator_Reset ==
    /\ ba.made
    /\ ba.m_pos # 0
    /\ ba' = [ba EXCEPT !.m_pos = 0,
                        !.call = [NoCall EXCEPT !.op = "Reset", !.hr = "S_OK"]]
    /\ UNCHANGED <<TypeIsLive, instanceAlive, IterFrame, last, inv, bx, cv, px, sel, ix, en, dtor, reg>>

\* BoxedArray::Iterator::GetNext
BoxedArray_Iterator_GetNextBody(b, dimensions, hrBox, hrIdx) ==
    LET none == [ret |-> "-", thrown |-> NoExc, out |-> NoObject,
                 indexers |-> [k \in 1 .. dimensions |-> NoObject], pos |-> b.m_pos]
    IN IF dimensions # 0 /\ dimensions # 1
       THEN [none EXCEPT !.ret = "E_INVALIDARG"]
       ELSE IF b.m_pos >= b.m_arraySize
       THEN [none EXCEPT !.ret = "E_BOUNDS"]
       ELSE LET objVal == BoxObjectIntrinsic_Box("int", b.m_spArray[b.m_pos + 1], 0, hrBox)
                idx == BoxObjectIntrinsic_Box(
                           "unsigned __int64",
                           [k \in DataBytes |-> IF k = 1 THEN b.m_pos ELSE 0], 0, hrIdx)
            IN IF objVal.thrown # NoExc
               THEN [none EXCEPT !.thrown = objVal.thrown]
               ELSE IF dimensions = 1 /\ idx.thrown # NoExc
               THEN [none EXCEPT !.thrown = idx.thrown]
               ELSE [none EXCEPT !.out = objVal.obj,
                                 !.indexers = IF dimensions = 1 THEN << idx.obj >>
                                              ELSE << >>,
                                 !.pos = b.m_pos + 1]

BoxedArray_Iterator_GetNext ==
    /\ ba.made
    /\ \E dimensions \in 0 .. 2, hrBox \in HostResults, hrIdx \in HostResults :
         /\ (dimensions = 2 \/ ba.m_pos >= ba.m_arraySize)
                => hrBox = "S_OK" /\ hrIdx = "S_OK"
         /\ (dimensions = 0 \/ hrBox # "S_OK") => hrIdx = "S_OK"
         /\ LET r == BoxedArray_Iterator_GetNextBody(ba, dimensions, hrBox, hrIdx)
                c == [NoCall EXCEPT !.op = "GetNext", !.dims = dimensions,
                                    !.out = r.out, !.indexers = r.indexers,
                                    !.hosted = (hrBox = "S_OK" /\ hrIdx = "S_OK")]
            IN \E tc \in IterTranscodesFor(r.thrown) :
                 ba' = [ba EXCEPT !.m_pos = r.pos,
                                  !.call = IF r.ret # "-" THEN [c EXCEPT !.hr = r.ret]
                                           ELSE ArrayOutcome(c, r.thrown, tc)]
    /\ UNCHANGED <<TypeIsLive, instanceAlive, IterFrame, last, inv, bx, cv, px, sel, ix, en, dtor, reg>>

\* The host releases the container and its iterator.
ReleaseArray ==
    /\ ba.phase = "boxed"
    /\ ba' = BaIdle
    /\ UNCHANGED <<TypeIsLive, instanceAlive, IterFrame, last, inv, bx, cv, px, sel, ix, en, dtor, reg>>

(***************************************************************************)
(* IndexerTraits over every value type: the element type of the bound      *)
(* sequence and the type its item projector returns are either a plain     *)
(* value or an IndexedValue<TValue, TIndicies...> of N indices.            *)
(***************************************************************************)
MaxIndices == 2
ValueTypes ==
    {[indexed |-> FALSE, N |-> 0]} \cup {[indexed |-> TRUE, N |-> n] : n \in 0 .. MaxIndices}

\* The item projectors bound: the default one returns the element; a custom
\* one may return its GetValue() or attach an index to a plain element.
ItemProjectors == {"identity", "GetValue", "AttachIndex"}

\* decltype(m_projector(*m_itCur)) for an element of type T
ProjectedType(p, T) ==
    CASE p = "GetValue" /\ T.indexed     -> [indexed |-> FALSE, N |-> 0]
      [] p = "AttachIndex" /\ ~T.indexed -> [indexed |-> TRUE, N |-> 1]
      [] OTHER                           -> T

\* The k-th element of the bound sequence: its value and the indices it
\* carries (distinct from its offset).
ElementAt(T, k) ==
    [value |-> 10 * k, indexed |-> T.indexed,
     indices |-> [j \in 1 .. T.N |-> 100 * j + k]]

\* m_projector(*m_itCur)
ProjectElement(p, e) ==
    CASE p = "GetValue" /\ e.indexed
           -> [value |-> e.value, indexed |-> FALSE, indices |-> << >>]
      [] p = "AttachIndex" /\ ~e.indexed
           -> [value |-> e.value, indexed |-> TRUE, indices |-> << e.value + 1 >>]
      [] OTHER -> e

\* Which IndexerTraits<TVal, TIter, IsRandom> an instantiation selects: the
\* partial specialisation for IndexedValue and the one for IsRandom = true
\* both match an IndexedValue under a random-access cursor, and neither is
\* more specialised than the other.
IndexerTraits_Select(T, random) ==
    CASE T.indexed /\ random  -> "ambiguous"
      [] T.indexed            -> "IndexedValue"
      [] random               -> "random"
      [] OTHER                -> "primary"

\* IndexerTraits::Dimensionality
IndexerTraits_Dimensionality(T, random) ==
    CASE IndexerTraits_Select(T, random) = "IndexedValue" -> T.N
      [] IndexerTraits_Select(T, random) = "random"       -> 1
      [] OTHER                                            -> 0

\* IndexerTraits::CheckDimensions
IndexerTraits_CheckDimensions(T, random, dims) ==
    IF IndexerTraits_Select(T, random) = "IndexedValue"
    THEN dims = 0 \/ dims = T.N
    ELSE CheckDimensions(random, dims)

\* IndexerTraits::CreateIndexers followed by FillIndexers for the value val
\* at cursor cur: the contents of ppIndexers, {} standing for a null entry.
IndexerTraits_FillIndexers(T, random, val, begin, cur, dims) ==
    IF IndexerTraits_Select(T, random) = "IndexedValue"
    THEN IF dims = T.N THEN [k \in 1 .. dims |-> {val.indices[k]}]
         ELSE [k \in 1 .. dims |-> {}]
    ELSE FillIndexers(random, begin, cur, dims)

NoStep == [taken |-> FALSE, dims |-> 0, hr |-> "none", raised |-> NoExc,
           cur |-> 0, val |-> << >>, indexers |-> << >>, check |-> TRUE]

IxIdle ==
    [phase |-> "idle", T |-> [indexed |-> FALSE, N |-> 0], random |-> FALSE,
     proj |-> "identity", n |-> 0, m_itCur |-> 0, dimensionality |-> << >>,
     step |-> NoStep]

\* A class binds an iterable over n elements of type T with an item
\* projector.  BoundIterableBase names IndexerTraits of the element type,
\* BoundIterator::GetNext those of the projected type; the binding is
\* ill-formed when either selection is ambiguous.
BindIterable ==
    /\ ix.phase = "idle"
    /\ \E T \in ValueTypes, random \in BOOLEAN, p \in ItemProjectors, n \in 0 .. MaxLen :
         /\ (p = "GetValue" => T.indexed) /\ (p = "AttachIndex" => ~T.indexed)
         /\ LET illFormed ==
                  \/ IndexerTraits_Select(T, random) = "ambiguous"
                  \/ IndexerTraits_Select(ProjectedType(p, T), random) = "ambiguous"
            IN /\ illFormed => n = 0
               /\ ix' = [IxIdle EXCEPT
                           !.phase = IF illFormed THEN "ill-formed" ELSE "bound",
                           !.T = T, !.random = random, !.proj = p, !.n = n]
    /\ UNCHANGED <<TypeIsLive, instanceAlive, IterFrame, last, inv, bx, cv, px, sel, ba, en, dtor, reg>>

\* BoundIterableBase::GetDefaultIndexDimensionality
GetDefaultIndexDimensionality ==
    /\ ix.phase = "bound"
    /\ ix.dimensionality = << >>
    /\ ix' = [ix EXCEPT !.dimensionality =
                          << IndexerTraits_Dimensionality(ix.T, ix.random) >>]
    /\ UNCHANGED <<TypeIsLive, instanceAlive, IterFrame, last, inv, bx, cv, px, sel, ba, en, dtor, reg>>

\* BoundIterator::GetNext of a live, unfailed traversal of the iterable; the
\* result of CheckDimensions is computed and dropped.
IndexedStep ==
    /\ ix.phase = "bound"
    /\ \E dims \in 0 .. MaxIndices + 1, fault \in StepFaults :
         LET P == ProjectedType(ix.proj, ix.T)
             val == ProjectElement(ix.proj, ElementAt(ix.T, ix.m_itCur + 1))
             s == [NoStep EXCEPT !.taken = TRUE, !.dims = dims, !.cur = ix.m_itCur,
                                 !.check = IndexerTraits_CheckDimensions(P, ix.random, dims)]
         IN IF ix.m_itCur = ix.n
            THEN /\ fault = NoExc
                 /\ ix' = [ix EXCEPT !.step = [s EXCEPT !.hr = "E_BOUNDS",
                                 !.indexers = [k \in 1 .. dims |-> {}]]]
            ELSE IF fault # NoExc
            THEN ix' = [ix EXCEPT !.step = [s EXCEPT !.hr = CatchClause(fault).hr,
                                 !.raised = fault,
                                 !.indexers = [k \in 1 .. dims |-> {}]]]
            ELSE ix' = [ix EXCEPT !.m_itCur = @ + 1,
                                  !.step = [s EXCEPT !.hr = "S_OK", !.val = << val >>,
                                 !.indexers = IndexerTraits_FillIndexers(
                                                P, ix.random, val, 0, ix.m_itCur, dims)]]
    /\ UNCHANGED <<TypeIsLive, instanceAlive, IterFrame, last, inv, bx, cv, px, sel, ba, en, dtor, reg>>

\* The binding is withdrawn (an ill-formed one never builds).
RemoveBinding ==
    /\ ix.phase # "idle"
    /\ ix' = IxIdle
    /\ UNCHANGED <<TypeIsLive, instanceAlive, IterFrame, last, inv, bx, cv, px, sel, ba, en, dtor, reg>>

(***************************************************************************)
(* ObjectIterator / KeyIterator: the C++ iterators client code uses over   *)
(* the host's IModelIterator / IKeyEnumerator.  A value is the position of *)
(* the host element it refers to, or 0 for a null object.                  *)
(***************************************************************************)
ClientIterators == {"ObjectIterator", "KeyIterator"}
StepResults ==
    {"S_OK", "E_BOUNDS", "E_FAIL", "E_OUTOFMEMORY", "E_INVALIDARG", "E_NOTIMPL"}

\* ObjectIterator() / KeyIterator(): what end() returns.
EndIterator == [m_value |-> 0, m_pos |-> 0]

\* A step that takes every failing status for the end of the sequence.
MoveForward_AnyFailureEnds(kind, it, hr, spValue) ==
    IF hr = "S_OK"
    THEN [it |-> [m_value |-> spValue,
                  m_pos |-> IF kind = "KeyIterator" THEN it.m_pos + 1 ELSE it.m_pos],
          thrown |-> NoExc]
    ELSE [it |-> EndIterator, thrown |-> NoExc]

\* ObjectIterator::MoveForward, KeyIterator::MoveForward on the status and
\* the value GetNext returned.
MoveForward(kind, it, hr, spValue) ==
    IF hr = "S_OK"
    THEN [it |-> [m_value |-> spValue,
                  m_pos |-> IF kind = "KeyIterator" THEN it.m_pos + 1 ELSE it.m_pos],
          thrown |-> NoExc]
    ELSE IF hr # "E_BOUNDS"
    THEN [it |-> it, thrown |-> CheckHr(hr)]
    ELSE [it |-> [m_value |-> 0, m_pos |-> 0], thrown |-> NoExc]

\* ObjectIterator::operator==, KeyIterator::operator==
IteratorsEqual(a, b) ==
    \/ a.m_value = 0 /\ b.m_value = 0
    \/ a.m_value # 0 /\ b.m_value # 0 /\ a.m_pos = b.m_pos

EnIdle ==
    [phase |-> "idle", kind |-> "ObjectIterator", it |-> EndIterator,
     n |-> 0, served |-> 0, hr |-> "none", raised |-> NoExc,
     before |-> EndIterator, returned |-> EndIterator]

\* What the host enumerator over n elements returns next: an element while
\* it has served fewer than n, or a failing status (E_BOUNDS is also what a
\* BoundIterator returns for a range_error raised inside a step).
HostStep(served, n) ==
    {[hr |-> "S_OK", value |-> served + 1] : x \in {y \in {1} : served < n}}
        \cup {[hr |-> h, value |-> 0] : h \in StepResults \ {"S_OK"}}

\* begin(): ObjectIterator(obj, pIterator) / KeyIterator(pKeyEnum), whose
\* constructor makes the first step; nothing is built if that step throws.
BeginEnumeration ==
    /\ en.phase = "idle"
    /\ \E kind \in ClientIterators, n \in 0 .. MaxLen :
         \E h \in HostStep(0, n) :
           LET r == MoveForward(kind, EndIterator, h.hr, h.value)
               built == r.thrown = NoExc
           IN en' = [phase |-> IF built THEN "iterating" ELSE "idle",
                     kind |-> kind,
                     it |-> IF built THEN r.it ELSE EndIterator,
                     n |-> IF built THEN n ELSE 0,
                     served |-> IF h.hr = "S_OK" THEN 1 ELSE 0,
                     hr |-> h.hr, raised |-> r.thrown, before |-> EndIterator,
                     returned |-> IF built THEN r.it ELSE EndIterator]
    /\ UNCHANGED <<TypeIsLive, instanceAlive, IterFrame, last, inv, bx, cv, px, sel, ba, ix, dtor, reg>>

\* operator++() and operator++(int) on an iterator that is not at the end:
\* the prefix form returns the iterator after the step, the postfix form a
\* copy made before it; nothing is returned when the step throws.
Advance ==
    /\ en.phase = "iterating"
    /\ ~IteratorsEqual(en.it, EndIterator)
    /\ \E h \in HostStep(en.served, en.n), postfix \in BOOLEAN :
         LET r == MoveForward(en.kind, en.it, h.hr, h.value)
         IN en' = [en EXCEPT !.it = r.it,
                             !.served = IF h.hr = "S_OK" THEN @ + 1 ELSE @,
                             !.hr = h.hr, !.raised = r.thrown, !.before = en.it,
                             !.returned = IF r.thrown # NoExc THEN @
                                          ELSE IF postfix THEN en.it ELSE r.it]
    /\ UNCHANGED <<TypeIsLive, instanceAlive, IterFrame, last, inv, bx, cv, px, sel, ba, ix, dtor, reg>>

\* The client drops the iterator.
EndEnumeration ==
    /\ en.phase = "iterating"
    /\ en' = EnIdle
    /\ UNCHANGED <<TypeIsLive, instanceAlive, IterFrame, last, inv, bx, cv, px, sel, ba, ix, dtor, reg>>

(***************************************************************************)
(* The destruction of a model object, step by step.  Every model class is  *)
(* derived from BaseDataModel (through ExtensionModel or a typed instance   *)
(* model), and the adapters call into the derived class (pDerived).  The    *)
(* destructor of the derived class and of its members runs first; then     *)
(* ~BaseDataModel clears the keys and concepts of the host object and,     *)
(* last, the flag of the link.  The host may call an adapter it can still  *)
(* reach at any of these points (from another thread, or from a destructor *)
(* of a member that calls back into the host).                              *)
(***************************************************************************)
\* ~TDerived() and the destructors of the members of the derived classes.
DerivedDestructor ==
    /\ dtor = "constructed"
    /\ instanceAlive
    /\ dtor' = "derived destroyed"
    /\ instanceAlive' = FALSE
    /\ last' = [NoLast EXCEPT !.op = "~TDerived", !.wasLive = TypeIsLive]
    /\ UNCHANGED <<TypeIsLive, IterFrame, inv, bx, cv, px, sel, ba, ix, en, reg>>

\* ~BaseDataModel: m_object->ClearKeys(); m_object->ClearConcepts();
BaseDataModel_ClearKeysAndConcepts ==
    /\ dtor = "derived destroyed"
    /\ dtor' = "keys and concepts cleared"
    /\ last' = [NoLast EXCEPT !.op = "ClearKeys", !.wasLive = TypeIsLive]
    /\ UNCHANGED <<TypeIsLive, instanceAlive, IterFrame, inv, bx, cv, px, sel, ba, ix, en, reg>>

\* ~BaseDataModel: m_dataRef->TypeIsLive = false;
BaseDataModel_ClearTypeIsLive ==
    /\ dtor = "keys and concepts cleared"
    /\ dtor' = "destroyed"
    /\ TypeIsLive' = FALSE
    /\ last' = [NoLast EXCEPT !.op = "~BaseDataModel", !.wasLive = TypeIsLive]
    /\ UNCHANGED <<instanceAlive, IterFrame, inv, bx, cv, px, sel, ba, ix, en, reg>>

\* The host can find a property, a method or the iterable concept on the
\* model object until ClearKeys/ClearConcepts has run; an iterator it was
\* handed earlier stays in its hands.
ReachableThroughObject == dtor \in {"constructed", "derived destroyed"}

(***************************************************************************)
(* Registration records of an ExtensionModel: ExtensionApplication applies *)
(* them in order into an ExtensionRegistrationList, whose destructor runs  *)
(* ExtensionUnapplication over every slot of the list.                     *)
(***************************************************************************)
MaxRecords == 3
RecordTypes == {"TypeSignatureRegistration", "NamedModelRegistration"}

\* A record as the caller wrote it; a default-constructed one is empty.
Records == [type : RecordTypes, empty : BOOLEAN]
EmptyRecord(type) == [type |-> type, empty |-> TRUE]
RecordLists == UNION {[1 .. n -> Records] : n \in 1 .. MaxRecords}

\* TypeSignatureRegistration::Apply, NamedModelRegistration::Apply: the
\* condition raised, hr being what the manager's Register call returns.
Record_Apply(record, hr) ==
    IF record.empty THEN unexpected_error ELSE CheckHr(hr)

\* TypeSignatureRegistration::Unapply, NamedModelRegistration::Unapply: the
\* empty record trips AssertCondition(false) and returns; any other is
\* unregistered with the manager.
Record_Unapply(record) ==
    IF record.empty THEN [asserted |-> TRUE, unregistered |-> FALSE]
    ELSE [asserted |-> FALSE, unregistered |-> TRUE]

RegIdle ==
    [phase |-> "idle", args |-> << >>, m_records |-> << >>, i |-> 0,
     registered |-> {}, unapplyCalls |-> << >>, unregisterCalls |-> << >>,
     asserted |-> {}, raised |-> NoExc, failedAt |-> 0]

\* ExtensionModel(registrations...): CompleteExtensionModelInitialization
\* makes the list, whose tuple of records is default-constructed.
BeginModelConstruction ==
    /\ reg.phase = "idle"
    /\ \E args \in RecordLists :
         reg' = [RegIdle EXCEPT
                   !.phase = "applying", !.args = args,
                   !.m_records = [k \in 1 .. Len(args) |-> EmptyRecord(args[k].type)],
                   !.unapplyCalls = [k \in 1 .. Len(args) |-> 0],
                   !.unregisterCalls = [k \in 1 .. Len(args) |-> 0]]
    /\ UNCHANGED <<TypeIsLive, instanceAlive, IterFrame, last, inv, bx, cv, px, sel, ba, ix, en, dtor>>

\* ExtensionApplication<TList, i, TArg, TArgs...>::Apply for the record at
\* slot reg.i (counted from 0): record.Apply(model), then the record is
\* moved into the list.  A throw leaves the constructor, and the list is
\* destroyed on the way out.
ExtensionApplication_Apply ==
    /\ reg.phase = "applying"
    /\ reg.i < Len(reg.args)
    /\ \E hr \in HostResults :
         LET k == reg.i + 1
             e == Record_Apply(reg.args[k], hr)
         IN /\ reg.args[k].empty => hr = "S_OK"
            /\ reg' = IF e # NoExc
                      THEN [reg EXCEPT !.phase = "unwinding", !.raised = e,
                                       !.failedAt = k]
                      ELSE [reg EXCEPT !.m_records[k] = reg.args[k],
                                       !.registered = @ \cup {k},
                                       !.i = k,
                                       !.phase = IF k = Len(reg.args) THEN "constructed"
                                                 ELSE "applying"]
    /\ UNCHANGED <<TypeIsLive, instanceAlive, IterFrame, last, inv, bx, cv, px, sel, ba, ix, en, dtor>>

\* ~ExtensionRegistrationList: ExtensionUnapplication<TList, 0, tuple_size>
\* calls Unapply on the record of every slot, in order.
ExtensionRegistrationList_Destructor(r) ==
    LET u == [k \in 1 .. Len(r.m_records) |-> Record_Unapply(r.m_records[k])]
    IN [r EXCEPT
          !.unapplyCalls = [k \in 1 .. Len(r.m_records) |-> r.unapplyCalls[k] + 1],
          !.unregisterCalls = [k \in 1 .. Len(r.m_records) |->
                                 r.unregisterCalls[k] + IF u[k].unregistered THEN 1 ELSE 0],
          !.asserted = {k \in 1 .. Len(r.m_records) : u[k].asserted},
          !.registered = r.registered \ {k \in 1 .. Len(r.m_records) : u[k].unregistered}]

\* The exception leaves CompleteExtensionModelInitialization: the unique_ptr
\* holding the list is destroyed and the caller gets the exception.
UnwindModelConstruction ==
    /\ reg.phase = "unwinding"
    /\ reg' = [ExtensionRegistrationList_Destructor(reg) EXCEPT !.phase = "failed"]
    /\ UNCHANGED <<TypeIsLive, instanceAlive, IterFrame, last, inv, bx, cv, px, sel, ba, ix, en, dtor>>

\* ~ExtensionModel: m_spRegistrationList is destroyed.
DestroyExtensionModel ==
    /\ reg.phase = "constructed"
    /\ reg' = [ExtensionRegistrationList_Destructor(reg) EXCEPT !.phase = "destroyed"]
    /\ UNCHANGED <<TypeIsLive, instanceAlive, IterFrame, last, inv, bx, cv, px, sel, ba, ix, en, dtor>>

\* The caller is done with the model or with the failure.
ForgetModel ==
    /\ reg.phase \in {"failed", "destroyed"}
    /\ reg' = RegIdle
    /\ UNCHANGED <<TypeIsLive, instanceAlive, IterFrame, last, inv, bx, cv, px, sel, ba, ix, en, dtor>>

Init ==
    /\ TypeIsLive = TRUE
    /\ instanceAlive = TRUE
    /\ seq \in [kind : SeqKinds, data : NativeSeqs, proj : Projectors]
    /\ co = [c \in {0} \cup IterIds |-> 0]
    /\ iters = [i \in IterIds |-> NoIter]
    /\ trace = [i \in IterIds |-> NoTrace]
    /\ last = NoLast
    /\ inv = InvIdle
    /\ bx = BxIdle
    /\ cv = CvIdle
    /\ px = PxIdle
    /\ sel = SelIdle
    /\ ba = BaIdle
    /\ ix = IxIdle
    /\ en = EnIdle
    /\ dtor = "constructed"
    /\ reg = RegIdle

\* The traversal machine: one bound iterable, its iterators, its teardown.
Next ==
    \/ \E i \in IterIds : GetIterator(i)
    \/ \E i \in IterIds : GetNext(i)
    \/ \E i \in IterIds : Reset(i)
    \/ Teardown

Spec == Init /\ [][Next]_vars

\* The adapters of one binding over a random-access container: the bound
\* lambdas, one traversal, the indexer, and the teardown.
InitAdapters ==
    /\ Init
    /\ seq.kind = "container"
    /\ seq.proj = "identity"

NextAdapters ==
    \/ GetValue
    \/ SetValue
    \/ Call
    \/ ToDisplayString
    \/ AreObjectsEqual
    \/ CompareObjects
    \/ GetIterator(1)
    \/ GetNext(1)
    \/ GetAt
    \/ SetAt
    \/ ReadOnlyIndexable_SetAt
    \/ Teardown

SpecAdapters == InitAdapters /\ [][NextAdapters]_vars

\* One bound method and the calls the host makes on it.
InitInvoke ==
    /\ Init
    /\ seq = [kind |-> "container", data |-> << >>, proj |-> "identity"]

NextInvoke ==
    \/ BindMethod
    \/ RejectDeclaration
    \/ WithdrawDeclaration
    \/ BoxedMethod_Call
    \/ ReleaseResult

SpecInvoke == InitInvoke /\ [][NextInvoke]_vars

\* Intrinsic values going through the host and back.
NextBox ==
    \/ Box
    \/ Unbox
    \/ Receive
    \/ UnboxAsIntrinsic
    \/ UnboxAsInterface
    \/ Release

SpecBox == InitInvoke /\ [][NextBox]_vars

\* Conditions converted to status codes and back.
NextConvert ==
    \/ Throw
    \/ Return
    \/ CheckBack
    \/ Handled

SpecConvert == InitInvoke /\ [][NextConvert]_vars

\* One boxed raw pointer and the indexed reads and writes through it.
NextPointer ==
    \/ BoxPointer
    \/ PointerIndexerAdapter_GetAt
    \/ PointerIndexerAdapter_SetAt
    \/ ReleasePointer

SpecPointer == InitInvoke /\ [][NextPointer]_vars

\* Optionals going through the host and back.
NextOptional ==
    \/ BoxOptional
    \/ UnboxOptional
    \/ ReleaseOptional

SpecOptional == InitInvoke /\ [][NextOptional]_vars

\* The boxer selected for the argument of a BoxObject call.
NextSelect ==
    \/ WriteBoxCall
    \/ InstantiateBoxObject
    \/ RemoveBoxCall

SpecSelect == InitInvoke /\ [][NextSelect]_vars

\* One fixed-size array boxed, read, assigned and traversed by the host while
\* native code goes on writing to its own array.
NextArray ==
    \/ BoxArray
    \/ WriteSource
    \/ BoxedArray_GetAt
    \/ BoxedArray_SetAt
    \/ BoxedArray_GetIterator
    \/ BoxedArray_Iterator_GetNext
    \/ BoxedArray_Iterator_Reset
    \/ ReleaseArray

SpecArray == InitInvoke /\ [][NextArray]_vars

\* One iterable bound over elements of some value type, asked for its default
\* dimensionality and stepped with every number of requested dimensions.
NextIndexer ==
    \/ BindIterable
    \/ GetDefaultIndexDimensionality
    \/ IndexedStep
    \/ RemoveBinding

SpecIndexer == InitInvoke /\ [][NextIndexer]_vars

\* Client code enumerating a host object or its keys.
NextEnumerate ==
    \/ BeginEnumeration
    \/ Advance
    \/ EndEnumeration

SpecEnumerate == InitInvoke /\ [][NextEnumerate]_vars

\* The adapters of one binding while its model object is being destroyed.
NextDestruction ==
    \/ ReachableThroughObject /\ GetValue
    \/ ReachableThroughObject /\ Call
    \/ ReachableThroughObject /\ GetIterator(1)
    \/ GetNext(1)
    \/ DerivedDestructor
    \/ BaseDataModel_ClearKeysAndConcepts
    \/ BaseDataModel_ClearTypeIsLive

SpecDestruction == InitAdapters /\ [][NextDestruction]_vars

\* The construction and destruction of one extension model.
NextRegistration ==
    \/ BeginModelConstruction
    \/ ExtensionApplication_Apply
    \/ UnwindModelConstruction
    \/ DestroyExtensionModel
    \/ ForgetModel

SpecRegistration == InitInvoke /\ [][NextRegistration]_vars

(***************************************************************************)
(* Properties of the lifetime link and of the indexer (SpecAdapters).      *)
(***************************************************************************)

\* A host call on an adapter made while the lifetime flag was already false.
CalledDetached == last.op \notin {"none", "Teardown"} /\ ~last.wasLive

\* C1: once the lifetime flag is false, no adapter operation of the binding
\* reads or calls into the native object: property get/set, method call,
\* string conversion, equality, comparison, iterator acquisition, iterator
\* step and index get/set, the BindEquatable and BindComparable adapters
\* included.
C1_NoNativeUseOnceDetached == CalledDetached => ~last.deref

\* C2: after teardown every operation on every adapter holding the flag
\* fails with the detached-object error, neither with another error nor
\* with success, on the first use and on every later use.
C2_DetachedErrorOnEveryUse ==
    CalledDetached => last.raised = object_detached

\* C3: index lookup on a live random-access sequence of length n with one
\* index returns element i when i < n, and for every i >= n (i = n
\* included) reports the range failure without dereferencing a cursor.
C3_IndexLookupIsBoundsChecked ==
    (last.op = "GetAt" /\ last.wasLive /\ last.dims = 1)
        => IF last.index < Len(seq.data)
           THEN last.raised = NoExc
                    => /\ last.hr = "S_OK"
                       /\ last.value = << Project(seq.proj, seq.data[last.index + 1]) >>
           ELSE /\ last.hr = "E_BOUNDS"
                /\ last.raised = NoExc
                /\ ~last.ub

(***************************************************************************)
(* Properties of method invocation (SpecInvoke).                           *)
(***************************************************************************)

\* The signature as its documentation reads it: the slots filled from the
\* dynamic pack are k required ones, m optional ones and possibly a closing
\* (size_t, Object *) pair.
BoundSlots == TupleTypeExtractor(inv.packIgnoreCount, inv.TArgs)
IsVariadic ==
    /\ Len(BoundSlots) >= 2
    /\ BoundSlots[Len(BoundSlots) - 1] = "SizeT"
    /\ BoundSlots[Len(BoundSlots)] = "ObjPtr"
FixedSlots == IF IsVariadic THEN 1 .. Len(BoundSlots) - 2 ELSE 1 .. Len(BoundSlots)
RequiredCount == Cardinality({j \in FixedSlots : BoundSlots[j] # "Opt"})
OptionalCount == Cardinality({j \in FixedSlots : BoundSlots[j] = "Opt"})
CountRejected ==
    /\ inv.raised = invalid_argument
    /\ ~inv.counted
    /\ inv.invoked = 0
CountAccepted ==
    /\ inv.counted
    /\ (inv.raised = NoExc /\ \A j \in 1 .. inv.packSize : inv.pack[j] = "value")
          => inv.invoked = 1

\* C4: with k required slots, m optional slots and possibly a variadic
\* pair, a call with n arguments fails with invalid-argument when n < k, is
\* accepted when k <= n <= k + m, and when n > k + m fails with
\* invalid-argument unless the signature is variadic, in which case it is
\* accepted and the variadic tail has n - k - m elements.
C4_ArgumentCountWindow ==
    inv.phase = "called" =>
        LET k == RequiredCount
            m == OptionalCount
            n == inv.packSize
        IN /\ n < k => CountRejected
           /\ (k <= n /\ n <= k + m) => CountAccepted
           /\ (n > k + m /\ ~IsVariadic) => CountRejected
           /\ (n > k + m /\ IsVariadic)
                 => /\ CountAccepted
                    /\ inv.invoked = 1
                          => /\ inv.parameters[k + m + 1] = [kind |-> "count", at |-> n - k - m]
                             /\ inv.parameters[k + m + 2] = [kind |-> "view", at |-> k + m]

\* A variadic method with required and optional slots was called with more
\* arguments than its fixed slots and ran.
C4_VariadicTailReached ==
    /\ inv.phase = "called"
    /\ IsVariadic
    /\ RequiredCount >= 1
    /\ OptionalCount >= 1
    /\ inv.packSize > RequiredCount + OptionalCount + 1
    /\ inv.invoked = 1
    /\ inv.raised = NoExc

\* C7: every condition raised while unpacking, invoking or boxing inside a
\* host-facing entry point comes back as a failing status code; none
\* escapes the entry point, a condition raised while the conversion builds
\* the error message included.
C7_NoConditionEscapes ==
    (inv.phase = "called" /\ inv.raised # NoExc)
        => /\ inv.escaped = NoExc
           /\ inv.hr \notin {"S_OK", "none"}

(***************************************************************************)
(* Properties of intrinsic boxing (SpecBox).                               *)
(***************************************************************************)

\* C8: for every supported intrinsic type T and every value x of T (0, the
\* minimum, the maximum and -1 among them), unboxing as T the object made
\* by boxing x returns exactly x.
C8_IntrinsicRoundTrip ==
    (bx.phase = "unboxed" /\ bx.asT = bx.T /\ bx.raised = NoExc)
        => bx.out = bx.val

\* An eight-byte -1 (all bits set) was boxed and unboxed as its own type.
C8_MinusOneRoundTripped ==
    /\ bx.phase = "unboxed"
    /\ bx.asT = bx.T
    /\ bx.T = "__int64"
    /\ bx.raised = NoExc
    /\ bx.val = [k \in 1 .. 8 |-> 255]
    /\ bx.out = bx.val

(***************************************************************************)
(* Properties of traversals (Spec).                                        *)
(***************************************************************************)

\* The last host call was a step on a traversal that had already failed.
SteppedAfterFailure == last.op = "GetNext" /\ last.prevThrown # NoExc

\* C5: once a step raised F, every later step on that traversal hands the
\* host the identical F (same condition, same status code) and neither
\* advances nor yields, Reset or not.
C5_SameFailureOnEveryLaterStep ==
    SteppedAfterFailure
        => /\ last.raised = last.prevThrown
           /\ last.escaped = NoExc
           /\ last.hr = CatchClause(last.prevThrown).hr
           /\ ~last.advanced
           /\ last.value = << >>

\* What BoundIterator does guarantee of a failed traversal (C5): a later
\* step raises F again, or the detached-object condition once the binding
\* is torn down; it neither advances the cursor nor yields an element,
\* Reset does not change this, and a status code that is returned is the
\* one of the condition raised.
C5_FailureIsSticky ==
    SteppedAfterFailure
        => /\ last.raised = IF last.wasLive THEN last.prevThrown ELSE object_detached
           /\ ~last.advanced
           /\ last.value = << >>
           /\ last.escaped = NoExc => last.hr = CatchClause(last.raised).hr

\* A traversal over a re-acquired generator yielded, failed, was Reset (its
\* record of yields is empty although its coroutine has produced elements)
\* and was stepped again while the binding was live.
C5_SteppedAfterFailureAndReset ==
    /\ SteppedAfterFailure
    /\ last.wasLive
    /\ last.raised = invalid_argument
    /\ seq.kind = "generatedIterable"
    /\ co[iters[last.it].cid] >= 2
    /\ trace[last.it].vals = << >>

\* C6 as stated: after end-of-sequence or failure no later operation of the
\* iterator interface makes the traversal yield again; in particular the
\* step that follows a Reset of an ended traversal yields nothing.
C6_ResetNeverRevives ==
    [][(/\ last.op = "Reset"
        /\ last.prevEnded
        /\ last'.op = "GetNext"
        /\ last'.it = last.it) => last'.value = << >>]_vars

\* C6: a traversal that failed yields nothing on any later step; a
\* traversal that reported end-of-sequence yields nothing and reports
\* end-of-sequence again on every later step while live and until Reset is
\* called on it.
C6_NoYieldAfterEndOrFailure ==
    (last.op = "GetNext" /\ (last.prevEnded \/ last.prevThrown # NoExc))
        => /\ last.value = << >>
           /\ ~last.advanced
           /\ (last.prevEnded /\ last.prevThrown = NoExc /\ last.wasLive)
                 => (last.raised = NoExc /\ last.hr = "E_BOUNDS")

\* A traversal that yielded elements and reported the end was stepped again.
C6_SteppedAfterEnd ==
    /\ last.op = "GetNext"
    /\ last.prevEnded
    /\ last.prevThrown = NoExc
    /\ last.wasLive
    /\ trace[last.it].vals # << >>

\* What a traversal of the bound sequence is to yield, start to end.
Projected == [k \in 1 .. Len(seq.data) |-> Project(seq.proj, seq.data[k])]
Drained(i) == iters[i].made /\ trace[i].ended /\ trace[i].failure = NoExc

\* C9 as stated: whatever kind of sequence was bound, two traversals each
\* drained to the end yield the same elements, those of the sequence;
\* acquiring or draining one never shortens or alters the other.
C9_AnyKindRestartable ==
    \A i, j \in IterIds :
        (Drained(i) /\ Drained(j))
            => trace[i].vals = trace[j].vals /\ trace[i].vals = Projected

\* C9: for a container, and for a GeneratedIterable whose single-pass
\* traversals are not Reset, two traversals each drained to the end yield
\* identical sequences, the elements of the bound sequence in order.
C9_RestartableKinds ==
    \A i, j \in IterIds :
        (/\ seq.kind # "heldGenerator"
         /\ Drained(i) /\ ~trace[i].rewound
         /\ Drained(j) /\ ~trace[j].rewound)
            => trace[i].vals = trace[j].vals /\ trace[i].vals = Projected

\* Two traversals of a GeneratedIterable of two or more elements are both
\* drained.
C9_BothDrained ==
    /\ seq.kind = "generatedIterable"
    /\ Len(seq.data) >= 2
    /\ \A i \in IterIds : Drained(i) /\ ~trace[i].rewound /\ trace[i].vals = Projected

\* C10: over a random-access sequence e0 .. e(n-1), step i+1 of a traversal
\* yields projection(e_i), with the offset i as the one index when one
\* dimension is requested, and step n+1 reports end-of-sequence.
C10_ProjectedElementWithOffset ==
    (/\ last.op = "GetNext"
     /\ IsRandom(seq.kind)
     /\ last.wasLive
     /\ last.prevThrown = NoExc
     /\ last.raised = NoExc)
        => IF last.prevCount < Len(seq.data)
           THEN /\ last.hr = "S_OK"
                /\ last.value = << Project(seq.proj, seq.data[last.prevCount + 1]) >>
                /\ Len(last.indexers) = 1 => last.indexers = << {last.prevCount} >>
           ELSE /\ last.hr = "E_BOUNDS"
                /\ last.value = << >>

\* The third step over [10, 20, 30] with the successor projection yielded
\* (31, 2).
C10_ThirdPairYielded ==
    /\ last.op = "GetNext"
    /\ seq = [kind |-> "container", data |-> << 10, 20, 30 >>, proj |-> "successor"]
    /\ last.value = << 31 >>
    /\ last.indexers = << {2} >>

(***************************************************************************)
(* Properties of the lifetime flag (SpecAdapters).                         *)
(***************************************************************************)

\* C11: the lifetime flag is live from creation; the only step that writes
\* it is the teardown of the owning object, which happens once, finds the
\* flag live and leaves it dead; once dead it is never live again.
C11_FlagClearedOnceAtTeardown ==
    /\ TypeIsLive = TRUE
    /\ [][/\ (TypeIsLive' # TypeIsLive) => last'.op = "Teardown"
          /\ ~TypeIsLive => ~TypeIsLive'
          /\ (last'.op = "Teardown" /\ last # last')
                => (TypeIsLive /\ instanceAlive /\ ~TypeIsLive')]_vars

\* The binding was torn down and an iterator handed out before was stepped
\* afterwards: the flag is dead and the step answered detached-object.
C11_SteppedAfterTeardown ==
    /\ ~TypeIsLive
    /\ ~instanceAlive
    /\ last.op = "GetNext"
    /\ last.raised = object_detached

(***************************************************************************)
(* Properties of the declaration of a signature (SpecInvoke).              *)
(***************************************************************************)

\* The ordering rule: a slot that is not std::optional<> follows an optional
\* one only as one of the two slots of a (size_t, Object *) pair that ends
\* the signature.
ObeysOrdering(slots) ==
    LET n == Len(slots)
    IN \A i, j \in 1 .. n :
         (i < j /\ slots[i] = "Opt" /\ slots[j] # "Opt")
            => /\ n >= 2
               /\ slots[n - 1] = "SizeT"
               /\ slots[n] = "ObjPtr"
               /\ j >= n - 1

\* C12: a signature with a required slot after an optional one (other than
\* the closing variadic pair) is rejected by the compile-time assertion when
\* it is declared and is never bound or called; a signature that obeys the
\* ordering rule never trips the assertion.
C12_OrderingRejectedAtDeclaration ==
    /\ inv.phase = "static_assert" => ~ObeysOrdering(BoundSlots)
    /\ inv.phase \in {"bound", "called", "no_unboxer"} => ObeysOrdering(BoundSlots)

\* (T, optional, size_t) was declared after the context object and one
\* extra value, and the assertion rejected it.
C12_RequiredAfterOptionalDeclared ==
    /\ inv.phase = "static_assert"
    /\ BoundSlots = << "Req", "Opt", "SizeT" >>
    /\ inv.packIgnoreCount = 2

(***************************************************************************)
(* Properties of the unpacking of an accepted call (SpecInvoke).           *)
(***************************************************************************)

\* C13: when a call with n dynamic arguments is accepted and its arguments
\* unbox, the fixed slot at position i < n holds the unboxed argument i, an
\* optional slot at position i >= n is left empty, and a closing variadic
\* pair at position p holds the count n - p and a view that starts at
\* argument p of the caller's array, or the count 0 when n <= p.
C13_SlotsFilledByPosition ==
    (inv.phase = "called" /\ inv.invoked = 1)
        => LET n == inv.packSize
               p == Len(BoundSlots) - 2
           IN /\ Len(inv.parameters) = Len(BoundSlots)
              /\ \A j \in FixedSlots :
                    IF j - 1 < n
                    THEN inv.parameters[j] = [kind |-> "unboxed", at |-> j - 1]
                    ELSE /\ BoundSlots[j] = "Opt"
                         /\ inv.parameters[j] = [kind |-> "nullopt", at |-> 0]
              /\ IsVariadic =>
                    IF n > p
                    THEN /\ inv.parameters[p + 1] = [kind |-> "count", at |-> n - p]
                         /\ inv.parameters[p + 2] = [kind |-> "view", at |-> p]
                    ELSE inv.parameters[p + 1] = [kind |-> "count", at |-> 0]

\* (T, optional, size_t, Object *) was called with four arguments: two
\* slots unboxed, and the pair holds the count 2 and the view from argument 2.
C13_TailUnpacked ==
    /\ inv.phase = "called"
    /\ inv.invoked = 1
    /\ BoundSlots = << "Req", "Opt", "SizeT", "ObjPtr" >>
    /\ inv.packSize = 4
    /\ inv.parameters[4] = [kind |-> "view", at |-> 2]

(***************************************************************************)
(* Properties of the invocation of an accepted call (SpecInvoke).          *)
(***************************************************************************)

\* C14: for each call whose count check passed and whose arguments unboxed,
\* the native function ran exactly once and received the receiver first,
\* then the fixed extra values in their order, then the unpacked dynamic
\* arguments in slot order; when nothing was raised the call result is the
\* boxed return value, or the no-value marker for a void function.  A call
\* that was not accepted did not run the function.
C14_InvokedOnceInOrder ==
    inv.phase = "called"
        => IF inv.counted /\ \A j \in 1 .. inv.packSize :
                                (j <= Len(BoundSlots) /\ j \in FixedSlots)
                                    => inv.pack[j] = "value"
           THEN /\ inv.invoked = 1
                /\ inv.received = << ContextObj >>
                                    \o ExtraValues(inv.packIgnoreCount - 1)
                                    \o inv.parameters
                /\ inv.raised = NoExc
                      => /\ inv.hr = "S_OK"
                         /\ inv.result = IF inv.TRet = "void" THEN "NoValue"
                                         ELSE "BoxObject(result)"
                /\ inv.raised # NoExc => inv.result = "none"
           ELSE inv.invoked = 0 /\ inv.result = "none" /\ inv.raised # NoExc

\* A void function with two extra values and the slots (T, optional) was
\* called with two arguments and returned.
C14_VoidCallWithExtras ==
    /\ inv.phase = "called"
    /\ inv.TRet = "void"
    /\ inv.packIgnoreCount = 3
    /\ BoundSlots = << "Req", "Opt" >>
    /\ inv.packSize = 2
    /\ inv.result = "NoValue"

(***************************************************************************)
(* Properties of the condition <-> status code conversion (SpecConvert).   *)
(***************************************************************************)

\* C15: a condition of a library category that was converted to a status
\* code at the boundary and converted back from that code is a condition of
\* the same category, and a passthrough keeps its status code.
C15_CategoryRoundTrips ==
    cv.phase = "rethrown"
        => /\ cv.rethrown.type = cv.thrown.type
           /\ cv.thrown.type = "hr_exception" => cv.rethrown.hr = cv.thrown.hr

\* What the conversion does preserve (C15): every category that has a
\* status code of its own comes back as itself, and a passthrough whose
\* code is not one of those codes comes back with its code.
C15_DedicatedCodesRoundTrip ==
    (/\ cv.phase = "rethrown"
     /\ cv.thrown.type # "object_detached"
     /\ cv.thrown.type = "hr_exception" => cv.thrown.hr \in {"E_FAIL", "E_ACCESSDENIED"})
        => /\ cv.rethrown.type = cv.thrown.type
           /\ cv.thrown.type = "hr_exception" => cv.rethrown.hr = cv.thrown.hr

\* A detached-object condition crossed the boundary and came back.
C15_DetachedCameBack ==
    /\ cv.phase = "rethrown"
    /\ cv.thrown = object_detached
    /\ cv.hr = "E_FAIL"

(***************************************************************************)
(* Properties of unboxing an object of another kind (SpecBox).             *)
(***************************************************************************)

\* An object was unboxed as a type its kind does not match.
WrongKind ==
    /\ bx.phase = "unboxed"
    /\ \/ bx.asT \in IntrinsicTypes /\ bx.obj.kind # "ObjectIntrinsic"
       \/ /\ bx.asT \in InterfaceTypes
          /\ bx.obj.kind # InterfaceTraits_ObjectKind(bx.asT)

\* C16 as stated: unboxing a value whose kind does not match the requested
\* native type always fails with invalid-argument and returns no value.
C16_WrongKindIsInvalidArgument ==
    WrongKind => (bx.raised.type = "invalid_argument" /\ bx.out = << >>)

\* C16 as the code has it: unboxing a value of the wrong kind returns no
\* value.  Requested as an interface, the failure is invalid-argument once
\* the host has reported the kind, and the condition of the kind query's
\* status code when that query fails.  Requested as an intrinsic type, the
\* kind is not looked at: the failure is the condition of the status code
\* the host's conversion returns.
C16_WrongKindNeverYields ==
    WrongKind =>
        /\ bx.out = << >>
        /\ bx.raised # NoExc
        /\ (bx.asT \in InterfaceTypes /\ bx.hrKind = "S_OK")
              => bx.raised = invalid_argument
        /\ (bx.asT \in InterfaceTypes /\ bx.hrKind # "S_OK")
              => bx.raised = ThrowHr(bx.hrKind)
        /\ bx.asT \in IntrinsicTypes => bx.raised = ThrowHr(bx.hr)

\* A method object was asked for as a key reference, and the host reported
\* its kind.
C16_MethodAskedAsKeyReference ==
    /\ bx.phase = "unboxed"
    /\ bx.obj.kind = "ObjectMethod"
    /\ bx.asT = "IModelKeyReference"
    /\ bx.hrKind = "S_OK"
    /\ bx.raised = invalid_argument
    /\ bx.out = << >>

(***************************************************************************)
(* Properties of index assignment without a setter (SpecAdapters).         *)
(***************************************************************************)

IsNegative(acc) == IsSigned(acc.T) /\ acc.bits[Len(acc.bits)] >= 128
Magnitude(acc) ==
    LET w == Len(acc.bits)
        flipped == [k \in 1 .. w |-> 255 - acc.bits[k]]
        one == [k \in 1 .. w |-> IF k = 1 THEN 1 ELSE 0]
        m == IF IsNegative(acc) THEN AddFrom(flipped, one, 1, 0, w) ELSE acc.bits
    IN [k \in DataBytes |-> IF k <= w THEN m[k] ELSE 0]

\* An access went through to the host's object at a location.
Addressed(acc) == acc.op # "none" /\ acc.hr = "S_OK"

\* The location of an access is address + i * s modulo 2^64: |i| elements
\* above the address for i >= 0, and the address is |i| elements above the
\* location for i < 0.
AtIndexedLocation(acc) ==
    LET span == Mul64(SizeBytes(px.baseSize), Magnitude(acc))
    IN IF IsNegative(acc) THEN Add64(acc.location, span) = px.ptr
       ELSE acc.location = Add64(px.ptr, span)

\* The object an access hands to the host: a typed object for a read, an
\* assignment through a reference for a write.
ThroughHostObject(acc) ==
    acc.object = IF acc.op = "GetAt" THEN "TypedObject(baseType)"
                 ELSE "AssignTo(PointerReference(baseType))"

\* C18: indexing a boxed raw pointer with element size s at index i, for
\* read and for write alike, addresses exactly address + i * s in 64-bit
\* arithmetic with i a signed 64-bit value, and runs no begin/end
\* traversal; a read and a write at the same index address the same
\* location; the write assigns through a reference made at that address.
C18_PointerIndexArithmetic ==
    /\ [](Addressed(px.acc) =>
             /\ AtIndexedLocation(px.acc)
             /\ ThroughHostObject(px.acc)
             /\ co = [c \in {0} \cup IterIds |-> 0]
             /\ \A i \in IterIds : iters[i] = NoIter)
    /\ [][(/\ Addressed(px.acc)
            /\ Addressed(px'.acc)
            /\ px.acc.op # px'.acc.op
            /\ Widen(px.acc.T, px.acc.bits) = Widen(px'.acc.T, px'.acc.bits))
              => px'.acc.location = px.acc.location]_vars

\* Element -1 of a pointer to four-byte elements at 0x1000 was assigned
\* to: the reference was made at 0x0FFC.
C18_ElementBeforeThePointer ==
    /\ px.ptr = [k \in DataBytes |-> IF k = 2 THEN 16 ELSE 0]
    /\ px.baseSize = 4
    /\ Addressed(px.acc)
    /\ px.acc.op = "SetAt"
    /\ px.acc.T = "int"
    /\ px.acc.bits = << 255, 255, 255, 255 >>
    /\ px.acc.location = << 252, 15, 0, 0, 0, 0, 0, 0 >>
    /\ px.acc.object = "AssignTo(PointerReference(baseType))"

(***************************************************************************)
(* Properties of optional boxing (SpecOptional).                           *)
(***************************************************************************)

\* An optional was boxed; it was unboxed and the host reported the kind.
OptionalBoxed == bx.phase \in {"optional boxed", "optional unboxed"}
OptionalUnboxed == bx.phase = "optional unboxed" /\ bx.hrKind = "S_OK"

\* The object is what BoxObject<T>::Box makes of the contained value.
IsBoxOfContained ==
    \E garbage \in GarbageBytes :
       bx.obj = BoxObject_Box(ValueType(bx.T), bx.val.value, garbage, "S_OK").obj

\* Boxing and unboxing, direction by direction: an empty optional boxes to
\* the no-value marker and an engaged one to the boxed contained value;
\* the no-value marker unboxes to empty, any other object to an engaged
\* optional holding T's unboxing of it (or to the condition T's unboxing
\* raised).
OptionalBoxingRules ==
    /\ (OptionalBoxed /\ ~bx.val.has) => bx.obj = ObjectOfKind("ObjectNoValue")
    /\ (OptionalBoxed /\ bx.val.has) => IsBoxOfContained
    /\ (OptionalUnboxed /\ bx.obj.kind = "ObjectNoValue")
          => (bx.raised = NoExc /\ bx.out = Nullopt(bx.T))
    /\ (OptionalUnboxed /\ bx.obj.kind # "ObjectNoValue") =>
          \E garbage \in GarbageBytes :
             LET r == BoxObject_Unbox(ValueType(bx.T), bx.obj, garbage, "S_OK", bx.hr)
             IN /\ bx.raised = r.thrown
                /\ bx.raised = NoExc => bx.out = Engaged(r.val)

\* C19 as stated: the rules above, and unbox(box(o)) = o for every
\* optional o.
C19_OptionalRoundTrip ==
    /\ OptionalBoxingRules
    /\ (OptionalUnboxed /\ bx.raised = NoExc) => bx.out = bx.val

\* C19 as the code has it: the rules above, and unbox(box(o)) = o for
\* every optional o that is empty or whose contained value does not itself
\* box to the no-value marker; an engaged optional whose contained value
\* boxes to the no-value marker comes back empty.
C19_RoundTripUnlessContainedIsNoValue ==
    /\ OptionalBoxingRules
    /\ (OptionalUnboxed /\ bx.raised = NoExc) =>
          IF bx.val.has /\ bx.obj.kind = "ObjectNoValue"
          THEN bx.out = Nullopt(bx.T)
          ELSE bx.out = bx.val

\* An engaged optional<int> holding -1 went to the host and came back.
C19_EngagedCameBack ==
    /\ bx.phase = "optional unboxed"
    /\ bx.T = "optional<int>"
    /\ bx.val = Engaged(<< 255, 255, 255, 255 >>)
    /\ bx.obj.kind = "ObjectIntrinsic"
    /\ bx.raised = NoExc
    /\ bx.out = bx.val

(***************************************************************************)
(* Properties of the choice of a boxer (SpecSelect).                       *)
(***************************************************************************)
Selected == sel.phase = "instantiated"
Strategies ==
    {"specialisation", "BoxObjectMethod", "BoxObjectIterable", "BoxObjectIntrinsic",
     "BoxObjectArray", "BoxObject<const char *>"}

\* C20 as stated: exactly one strategy is chosen, by fixed priority: an
\* explicit per-type registration whenever one exists; otherwise the method
\* boxer for a type with a call-invocation shape, even if it also has
\* begin/end; otherwise the iterable boxer for a type with begin/end;
\* otherwise the intrinsic boxer.
C20_FourWayPriority ==
    Selected =>
       sel.boxer = IF sel.T.specialised THEN "specialisation"
                   ELSE IF sel.T.callOperator # "none" THEN "BoxObjectMethod"
                   ELSE IF sel.T.beginEnd THEN "BoxObjectIterable"
                   ELSE "BoxObjectIntrinsic"

\* C20 as the code has it: exactly one strategy is chosen.  An array type
\* goes to the array boxer (the string boxer for character arrays) before
\* anything else is looked at.  For any other type: a specialisation
\* whenever one exists; otherwise the method boxer when the type has one
\* call operator that is not a template, even if it also has begin/end;
\* otherwise the iterable boxer when it has begin/end; otherwise the
\* intrinsic boxer, which compiles only for a type with intrinsic traits.
C20_PriorityAfterArrays ==
    Selected =>
       /\ sel.boxer \in Strategies
       /\ sel.T.array = "char" => sel.boxer = "BoxObject<const char *>"
       /\ sel.T.array = "other" => sel.boxer = "BoxObjectArray"
       /\ (sel.T.array = "no" /\ sel.T.specialised) => sel.boxer = "specialisation"
       /\ (sel.T.array = "no" /\ ~sel.T.specialised /\ sel.T.callOperator = "one")
             => sel.boxer = "BoxObjectMethod"
       /\ (sel.T.array = "no" /\ ~sel.T.specialised /\ sel.T.callOperator # "one"
             /\ sel.T.beginEnd) => sel.boxer = "BoxObjectIterable"
       /\ (sel.T.array = "no" /\ ~sel.T.specialised /\ sel.T.callOperator # "one"
             /\ ~sel.T.beginEnd)
             => (sel.boxer = "BoxObjectIntrinsic"
                   /\ sel.compiles = sel.T.intrinsicTraits)

\* A type with one call operator and with begin/end, not specialised for,
\* was handed to BoxObject by reference: the method boxer was selected.
C20_CallableContainerBoxed ==
    /\ Selected
    /\ sel.T.array = "no"
    /\ ~sel.T.specialised
    /\ sel.T.callOperator = "one"
    /\ sel.T.beginEnd
    /\ sel.T.qualifier = "const T&"
    /\ sel.boxer = "BoxObjectMethod"

(***************************************************************************)
(* C21.  A boxed array owns a private copy of its elements.                *)
(***************************************************************************)
\* What a lookup at every position of the container would hand to the host.
Served(b) ==
    [k \in 1 .. b.m_arraySize |->
        BoxedArray_GetAtBody(b, 1, IndexObject([j \in DataBytes |-> IF j = 1 THEN k - 1 ELSE 0]),
                             "S_OK", "S_OK").out]

AssignedAt(b, k) ==
    /\ b.call.op = "SetAt"
    /\ b.call.hr = "S_OK"
    /\ k = IdxAsSizeT(b.call.idx) + 1

\* C21: boxing a fixed-size array copies its elements: right after boxing the
\* container serves the elements the source held; a later write to the
\* source array changes nothing the container serves; an assignment through
\* the container changes at most the addressed element of the copy and never
\* the source array; no other operation changes the copy or the source.
C21_PrivateCopy ==
    [][/\ ba'.phase = "boxed" /\ ba.phase = "idle"
            => /\ ba'.m_spArray = ba'.src
               /\ ba'.m_arraySize = Len(ba'.src)
       /\ ba.phase = "boxed" /\ ba'.phase = "boxed"
            => /\ ba'.call.op = "WriteSource"
                    => /\ ba'.src # ba.src
                       /\ ba'.m_spArray = ba.m_spArray
                       /\ Served(ba') = Served(ba)
               /\ ba'.call.op # "WriteSource" => ba'.src = ba.src
               /\ \A k \in 1 .. ba.m_arraySize :
                    ba'.m_spArray[k] # ba.m_spArray[k] => AssignedAt(ba', k)
               /\ ba'.m_arraySize = ba.m_arraySize
               /\ Len(ba'.m_spArray) = ba.m_arraySize]_vars

\* The source was overwritten after boxing, an element of the copy was then
\* assigned, and source and copy differ in both positions.
C21_SourceAndCopyDiverged ==
    /\ ba.phase = "boxed"
    /\ AssignedAt(ba, 2)
    /\ ba.m_arraySize = 2
    /\ ba.src = << << 255, 255, 255, 255 >>, << 0, 0, 0, 0 >> >>
    /\ ba.m_spArray = << << 0, 0, 0, 0 >>, << 255, 255, 255, 255 >> >>

(***************************************************************************)
(* C22.  The index information of a traversal by value and cursor kind.    *)
(***************************************************************************)
\* The index information the iterable gave so far is the one the statement
\* prescribes for values of type V under the cursor kind of the sequence.
IndexInfoFor(V) ==
    LET yielded == ix.step.taken /\ ix.step.hr = "S_OK"
        asked == ix.dimensionality # << >>
        noIndex == \A k \in 1 .. ix.step.dims : ix.step.indexers[k] = {}
    IN /\ V.indexed
            => /\ asked => ix.dimensionality = << V.N >>
               /\ yielded /\ ix.step.dims = V.N
                    => /\ Len(ix.step.indexers) = V.N
                       /\ \A k \in 1 .. V.N :
                            ix.step.indexers[k] = {ElementAt(V, ix.step.cur + 1).indices[k]}
       /\ ~V.indexed /\ ix.random
            => /\ asked => ix.dimensionality = << 1 >>
               /\ yielded /\ ix.step.dims = 1 => ix.step.indexers = << {ix.step.cur} >>
       /\ ~V.indexed /\ ~ix.random
            => /\ asked => ix.dimensionality = << 0 >>
               /\ ix.step.taken => noIndex

\* C22: the index information a traversal offers depends only on the value
\* and the cursor kind, whether the value is taken to be the element of the
\* sequence or the value the step yields: explicit indices are reported as
\* they are, with dimensionality N; a random-access cursor without explicit
\* indices reports one index, the offset from the start; a forward-only
\* cursor reports dimensionality 0 and never an index.
C22_IndexInfoByValueAndCursor ==
    ix.phase = "bound"
        => IndexInfoFor(ix.T) \/ IndexInfoFor(ProjectedType(ix.proj, ix.T))

\* What holds: the reported dimensionality follows the element type, the
\* indices of a step follow the type the projector returns, and the two
\* agree under the default projector.
C22_IndexInfoOfUnprojected ==
    /\ ix.phase = "bound" /\ ix.proj = "identity" => IndexInfoFor(ix.T)
    /\ ix.phase = "bound" /\ ix.dimensionality # << >>
         => ix.dimensionality = << IF ix.T.indexed THEN ix.T.N
                                   ELSE IF ix.random THEN 1 ELSE 0 >>

\* A forward-only sequence of singly indexed elements bound with a projector
\* that returns the plain value: dimensionality 1 was reported, and a step
\* asked for one index succeeded with a null index.
C22_ReportedIndexNeverFilled ==
    /\ ix.phase = "bound"
    /\ ix.T = [indexed |-> TRUE, N |-> 1]
    /\ ~ix.random
    /\ ix.proj = "GetValue"
    /\ ix.dimensionality = << 1 >>
    /\ ix.step.taken /\ ix.step.hr = "S_OK" /\ ix.step.dims = 1
    /\ ix.step.indexers = << {} >>

(***************************************************************************)
(* C23.  E_BOUNDS ends a client enumeration; other failures are raised.    *)
(***************************************************************************)
Stepped == en.hr # "none"

\* C23: when a step of the host returns E_BOUNDS the client iterator equals
\* the end iterator and nothing is raised; when it returns any other failing
\* status the condition of that status is raised, and the iterator is not at
\* the end unless it was before the step; a successful step raises nothing
\* and leaves the iterator off the end.
C23_BoundsEndsOthersRaise ==
    Stepped =>
        /\ en.hr = "E_BOUNDS"
             => /\ en.raised = NoExc
                /\ IteratorsEqual(en.it, EndIterator)
                /\ IteratorsEqual(EndIterator, en.it)
        /\ en.hr \notin {"S_OK", "E_BOUNDS"}
             => /\ en.raised # NoExc
                /\ en.raised.type = (CASE en.hr = "E_OUTOFMEMORY" -> "bad_alloc"
                                       [] en.hr = "E_INVALIDARG"  -> "invalid_argument"
                                       [] en.hr = "E_NOTIMPL"     -> "not_implemented"
                                       [] OTHER                   -> "hr_exception")
                /\ en.raised.type = "hr_exception" => en.raised.hr = en.hr
                /\ en.phase = "iterating"
                     => /\ en.it = en.before
                        /\ ~IteratorsEqual(en.it, EndIterator)
        /\ en.hr = "S_OK"
             => /\ en.raised = NoExc
                /\ ~IteratorsEqual(en.it, EndIterator)

\* The second step of a key enumeration failed with E_FAIL: the condition was
\* raised and the iterator still refers to the first key.
C23_FailureMidwayRaised ==
    /\ en.phase = "iterating"
    /\ en.kind = "KeyIterator"
    /\ en.hr = "E_FAIL"
    /\ en.raised = Exc("hr_exception", "E_FAIL", FALSE)
    /\ en.it = [m_value |-> 1, m_pos |-> 1]

(***************************************************************************)
(* C24.  Index outputs of a successful step, unsupported dimension counts. *)
(***************************************************************************)
\* C24: a step of a bound iterable that returns success with d > 0 index
\* dimensions requested has filled all d index outputs, and a step that
\* requests a number of dimensions that is neither 0 nor the dimensionality
\* of the sequence does not return success.
C24_IndexOutputsFilledOrRejected ==
    (last.op = "GetNext" /\ last.hr = "S_OK")
        => LET d == Len(last.indexers)
           IN /\ \A k \in 1 .. d : last.indexers[k] # {}
              /\ d \in {0, IF IsRandom(seq.kind) THEN 1 ELSE 0}

\* What holds for boxed arrays: BoxedArray::Iterator::GetNext rejects every
\* count other than 0 and 1 with E_INVALIDARG before it looks at the cursor,
\* and a successful step asked for one index hands out the position it was at.
C24_ArrayStepFilledOrRejected ==
    ba.call.op = "GetNext"
        => /\ ba.call.dims \notin {0, 1}
                => ba.call.hr = "E_INVALIDARG" /\ ba.call.out = NoObject
           /\ ba.call.hr = "S_OK"
                => /\ Len(ba.call.indexers) = ba.call.dims
                   /\ \A k \in 1 .. ba.call.dims :
                        /\ ba.call.indexers[k].kind = "ObjectIntrinsic"
                        /\ ba.call.indexers[k].bits[1] = ba.m_pos - 1

\* A step over a random-access container asked for two index dimensions
\* returned success and left both index outputs null.
C24_TwoDimensionsAcceptedUnfilled ==
    /\ last.op = "GetNext"
    /\ last.hr = "S_OK"
    /\ IsRandom(seq.kind)
    /\ last.indexers = << {}, {} >>

(***************************************************************************)
(* C25.  After teardown the lifetime check comes first.                    *)
(***************************************************************************)
\* The host stepped a traversal that had failed or ended before, after the
\* native model object was destroyed.
SteppedAfterTeardown ==
    /\ last.op = "GetNext"
    /\ ~instanceAlive
    /\ last.prevThrown # NoExc \/ last.prevEnded

\* C25: once the binding is torn down, every step of a traversal that had
\* already failed or reached the end raises detached-object, not the recorded
\* failure and not end-of-sequence: it yields nothing, does not move the
\* cursor or touch the native sequence, and the status it returns is the one
\* of detached-object.
C25_DetachedTakesPrecedence ==
    SteppedAfterTeardown
        => /\ last.raised = object_detached
           /\ last.hr # "E_BOUNDS"
           /\ last.escaped = NoExc => last.hr = "E_FAIL"
           /\ last.value = << >>
           /\ ~last.advanced
           /\ ~last.deref
           /\ iters[last.it].m_thrown = object_detached

\* A traversal reached the end, the model object was destroyed, and the next
\* step reported detached-object instead of the end.
C25_DetachedAfterEnd ==
    /\ SteppedAfterTeardown
    /\ last.prevEnded
    /\ last.prevThrown = NoExc
    /\ last.raised = object_detached
    /\ last.hr = "E_FAIL"

\* A traversal failed with invalid-argument, the model object was destroyed,
\* and the next step reported detached-object instead of that failure.
C25_DetachedAfterFailure ==
    /\ SteppedAfterTeardown
    /\ last.prevThrown = invalid_argument
    /\ last.raised = object_detached

(***************************************************************************)
(* C26.  The flag and the destruction of the native instance.              *)
(***************************************************************************)
\* C26: during the teardown of a native model object the flag of the link is
\* cleared before any part of the state the adapters use is destroyed: in
\* no reachable state is the flag live while the instance is partly
\* destroyed, and so no adapter that found the link live uses a destroyed
\* instance.
C26_FlagClearedBeforeDestruction ==
    /\ TypeIsLive => instanceAlive
    /\ (last.op \in {"GetValue", "Call", "GetIterator", "GetNext"} /\ last.wasLive)
         => ~last.ub

\* What holds: the flag is cleared by the last statement of the destructor
\* of the base class, after the derived part is gone and the keys and
\* concepts are cleared, and stays cleared.
C26_FlagClearedLast ==
    /\ TypeIsLive <=> dtor # "destroyed"
    /\ instanceAlive <=> dtor = "constructed"

\* The derived part of the model object is destroyed, the flag is still
\* live, and a property getter called at that point passed the lifetime
\* check and used the destroyed instance.
C26_GetterRanOnDestroyedInstance ==
    /\ dtor = "derived destroyed"
    /\ TypeIsLive
    /\ ~instanceAlive
    /\ last.op = "GetValue"
    /\ last.wasLive
    /\ last.deref
    /\ last.ub

(***************************************************************************)
(* C27.  Unapplying registration records after a failed construction.      *)
(***************************************************************************)
\* C27: when applying the j-th record fails during construction, exactly the
\* records before it, which had been applied, are unapplied, each once, the
\* failure is reported, and Unapply is not invoked on a record that was never
\* applied: the assertion for the empty record is not reached.
C27_OnlyAppliedRecordsUnapplied ==
    reg.phase = "failed"
        => /\ reg.raised # NoExc
           /\ \A k \in 1 .. Len(reg.args) :
                reg.unapplyCalls[k] = IF k < reg.failedAt THEN 1 ELSE 0
           /\ reg.asserted = {}

\* What holds: the manager is asked to unregister exactly the records that
\* had been registered, each once, nothing stays registered, and the failure
\* reaches the caller; Unapply itself runs on every slot of the list, and the
\* slots from the failing one onwards trip the assertion.
C27_RegisteredRecordsUnregisteredOnce ==
    /\ reg.phase = "failed"
         => /\ reg.raised # NoExc
            /\ reg.registered = {}
            /\ \A k \in 1 .. Len(reg.args) :
                 /\ reg.unregisterCalls[k] = IF k < reg.failedAt THEN 1 ELSE 0
                 /\ reg.unapplyCalls[k] = 1
                 /\ k \in reg.asserted <=> k >= reg.failedAt
    /\ reg.phase = "destroyed"
         => /\ reg.registered = {}
            /\ reg.asserted = {}
            /\ \A k \in 1 .. Len(reg.args) :
                 reg.unregisterCalls[k] = 1 /\ reg.unapplyCalls[k] = 1

\* The second of two records failed to register: the first was unregistered
\* once, and Unapply also ran on the empty second slot and asserted.
C27_UnapplyRanOnEmptySlot ==
    /\ reg.phase = "failed"
    /\ Len(reg.args) = 2
    /\ reg.failedAt = 2
    /\ ~reg.args[2].empty
    /\ reg.unregisterCalls = << 1, 0 >>
    /\ reg.unapplyCalls = << 1, 1 >>
    /\ reg.asserted = {2}

(***************************************************************************)
(* C28.  The variant tag of a native integer type.                          *)
(***************************************************************************)
IntegerTypes == IntrinsicTypes \ {"float", "double", "bool"}

\* std::is_signed_v<T> for the integer types
is_signed_v(T) == T \in {"char", "short", "int", "long", "__int64"}

\* Whether a tag names a signed member of the variant's union.
TagIsSigned(vt) == vt \in {"VT_I1", "VT_I2", "VT_I4", "VT_I8"}

\* The number a sequence of bytes stands for when read as a signed or as an
\* unsigned integer: its sign and the bytes of its absolute value.
NumberRead(signed, bits) ==
    LET w == Len(bits)
        neg == signed /\ bits[w] >= 128
        flipped == [k \in 1 .. w |-> 255 - bits[k]]
        one == [k \in 1 .. w |-> IF k = 1 THEN 1 ELSE 0]
        m == IF neg THEN AddFrom(flipped, one, 1, 0, w) ELSE bits
    IN [neg |-> neg, abs |-> [k \in DataBytes |-> IF k <= w THEN m[k] ELSE 0]]

IntegerBoxed == bx.phase = "boxed" /\ bx.T \in IntegerTypes

\* C28: the tag under which a native integer type is boxed has the
\* signedness and the byte width of that type, so the host, reading the
\* boxed bits by the tag, sees the number the native side boxed.
C28_TagMatchesNativeType ==
    IntegerBoxed
        => /\ TagIsSigned(bx.obj.vt) = is_signed_v(bx.T)
           /\ TagWidth(bx.obj.vt) = SizeOf(bx.T)
           /\ NumberRead(TagIsSigned(bx.obj.vt), bx.obj.bits)
                = NumberRead(is_signed_v(bx.T), bx.val)

\* What holds: the tag has the width of the type and the bits are kept for
\* every integer type, and the signedness agrees for every one but long.
C28_TagMatchesExceptLong ==
    IntegerBoxed
        => /\ TagWidth(bx.obj.vt) = SizeOf(bx.T)
           /\ bx.obj.bits = bx.val
           /\ bx.T # "long"
                => /\ TagIsSigned(bx.obj.vt) = is_signed_v(bx.T)
                   /\ NumberRead(TagIsSigned(bx.obj.vt), bx.obj.bits)
                        = NumberRead(is_signed_v(bx.T), bx.val)
           /\ bx.T = "long" => bx.obj.vt = "VT_UI4"

\* A long holding -1 was boxed: the object is tagged as an unsigned four-byte
\* value, which the host reads as 4294967295.
C28_MinusOneLongBoxedUnsigned ==
    /\ bx.phase = "boxed"
    /\ bx.T = "long"
    /\ bx.val = << 255, 255, 255, 255 >>
    /\ bx.obj.vt = "VT_UI4"
    /\ NumberRead(is_signed_v(bx.T), bx.val)
         = [neg |-> TRUE, abs |-> << 1, 0, 0, 0, 0, 0, 0, 0 >>]
    /\ NumberRead(TagIsSigned(bx.obj.vt), bx.obj.bits)
         = [neg |-> FALSE, abs |-> << 255, 255, 255, 255, 0, 0, 0, 0 >>]

(***************************************************************************)
(* C29.  Index lookup and index assignment on a boxed array.                *)
(***************************************************************************)
\* i < N for the index the host passed
IndexInRange(idx, N) == (\A k \in 2 .. 8 : idx[k] = 0) /\ idx[1] < N

IndexedCall(c) == c.op \in {"GetAt", "SetAt"}
CallSucceeded(c) == c.hr = "S_OK" /\ c.raised = NoExc /\ c.escaped = NoExc

\* The object a lookup at the index of call c gives on container b.
LookupAt(b, idx) == BoxedArray_GetAtBody(b, 1, IndexObject(idx), "S_OK", "S_OK").out

\* C29: with the host's conversions of index and value succeeding, a lookup
\* or an assignment at index i of a boxed array of N elements succeeds
\* exactly if one index was given and i < N; with another number of indices
\* it fails with E_INVALIDARG, with i >= N it fails by a range error
\* (E_BOUNDS when a status is returned), and a failed call leaves the copy as
\* it was; a lookup never changes the copy and returns the element at i; a
\* successful assignment of v at i makes a lookup at i return v and changes
\* no other position.
C29_IndexedAccess ==
    [][ba.phase = "boxed" /\ ba'.phase = "boxed" /\ IndexedCall(ba'.call)
        => LET c == ba'.call
               N == ba.m_arraySize
               i == IdxAsSizeT(c.idx)
           IN /\ c.hosted
                   => /\ CallSucceeded(c)
                         <=> (c.indexerCount = 1 /\ IndexInRange(c.idx, N))
                      /\ c.indexerCount # 1
                            => c.hr = "E_INVALIDARG" /\ c.raised = NoExc
                      /\ c.indexerCount = 1 /\ ~IndexInRange(c.idx, N)
                            => /\ c.raised.type = "range_error"
                               /\ c.escaped = NoExc => c.hr = "E_BOUNDS"
              /\ ~CallSucceeded(c) => ba'.m_spArray = ba.m_spArray
              /\ c.op = "GetAt"
                   => /\ ba'.m_spArray = ba.m_spArray
                      /\ CallSucceeded(c)
                            => c.out = CreateIntrinsicObject(
                                           FillVariant("int", ba.m_spArray[i + 1], 0))
              /\ c.op = "SetAt" /\ CallSucceeded(c)
                   => /\ LookupAt(ba', c.idx)
                            = CreateIntrinsicObject(FillVariant("int", c.val, 0))
                      /\ ba'.m_spArray[i + 1] = c.val
                      /\ \A k \in 1 .. N :
                            k # i + 1 => ba'.m_spArray[k] = ba.m_spArray[k]
                      /\ Len(ba'.m_spArray) = N
              /\ ba'.m_arraySize = N]_vars

\* An assignment of -1 at index 1 of a two-element array of zeros succeeded:
\* a lookup at 1 gives -1, a lookup at 0 still gives 0.
C29_AssignedThenLookedUp ==
    /\ ba.phase = "boxed"
    /\ ba.m_arraySize = 2
    /\ ba.call.op = "SetAt"
    /\ CallSucceeded(ba.call)
    /\ ba.call.indexerCount = 1
    /\ ba.call.idx = << 1, 0, 0, 0, 0, 0, 0, 0 >>
    /\ ba.call.val = << 255, 255, 255, 255 >>
    /\ LookupAt(ba, ba.call.idx).bits = << 255, 255, 255, 255 >>
    /\ LookupAt(ba, << 0, 0, 0, 0, 0, 0, 0, 0 >>).bits = << 0, 0, 0, 0 >>

\* A lookup at index 2^32 of a boxed array failed by a range error.
C29_HugeIndexRejected ==
    /\ ba.phase = "boxed"
    /\ ba.call.op = "GetAt"
    /\ ba.call.idx = << 0, 0, 0, 0, 1, 0, 0, 0 >>
    /\ ba.call.raised.type = "range_error"
    /\ ba.call.hr = "E_BOUNDS"

(***************************************************************************)
(* C30.  Traversals of one bound iterable do not disturb one another.       *)
(***************************************************************************)
\* What the next step of traversal j would give the host.
NextResult(j) ==
    LET r == BoundIterator_GetNext(iters[j], co[iters[j].cid], 1, NoExc, 0)
    IN [thrown |-> r.thrown, hr |-> r.hr, value |-> r.value, indexers |-> r.indexers]

\* A step or a Reset was made on a traversal by this transition.
StepOrResetOn(i) ==
    /\ last'.op \in {"GetNext", "Reset"}
    /\ last'.it = i

\* The cursor, the recorded failure, what the host has seen and what the
\* next step would give are the same after the transition, for traversal j.
Undisturbed(j) ==
    /\ iters'[j] = iters[j]
    /\ trace'[j] = trace[j]
    /\ NextResult(j)' = NextResult(j)

\* C30 as stated: whatever was bound, a step or a Reset on one traversal,
\* whether it yields, reports the end or fails, changes neither the cursor,
\* nor the recorded failure, nor the results of another traversal of the
\* same bound iterable.
C30_TraversalsIndependent ==
    [][\A i, j \in IterIds :
         (i # j /\ iters[j].made /\ StepOrResetOn(i)) => Undisturbed(j)]_vars

\* C30: over a container or a GeneratedIterable a step or a Reset on one
\* traversal leaves every other traversal undisturbed; teardown of the
\* binding changes no cursor and no recorded failure either, and after it
\* the next step of every traversal raises the detached-object condition.
C30_IndependentUnlessGeneratorShared ==
    [][/\ \A i, j \in IterIds :
            (/\ seq.kind # "heldGenerator"
             /\ i # j /\ iters[j].made /\ StepOrResetOn(i)) => Undisturbed(j)
       /\ last'.op = "Teardown"
            => /\ iters' = iters /\ trace' = trace /\ co' = co
               /\ \A j \in IterIds :
                    iters[j].made => NextResult(j)'.thrown = object_detached]_vars

\* Traversal 1 of a GeneratedIterable of three elements has just reported the
\* end while traversal 2, one element in, would yield the second next.
C30_OneEndedOtherMidway ==
    /\ seq.kind = "generatedIterable"
    /\ Len(seq.data) = 3
    /\ last.op = "GetNext"
    /\ last.it = 1
    /\ last.hr = "E_BOUNDS"
    /\ trace[1].ended
    /\ iters[2].made
    /\ Len(trace[2].vals) = 1
    /\ ~trace[2].ended
    /\ NextResult(2).value = << Project(seq.proj, seq.data[2]) >>

\* Over a held generator a step on traversal 1 moved what traversal 2, which
\* has not been stepped, would yield next.
C30_SharedGeneratorMoved ==
    /\ seq.kind = "heldGenerator"
    /\ Len(seq.data) = 3
    /\ last.op = "GetNext"
    /\ last.it = 1
    /\ last.hr = "S_OK"
    /\ iters[2].made
    /\ trace[2].vals = << >>
    /\ NextResult(2).value = << Project(seq.proj, seq.data[3]) >>

====
